---------------------------- MODULE Spec2Model ----------------------------
(***************************************************************************)
(* AIJudge: the judgment aggregation and scoring pipeline of app.py and    *)
(* utils.py (two judge records -> get_combined_judgment ->                 *)
(* calculate_total_score -> ranked result batch).                          *)
(*                                                                         *)
(* Python numbers are modelled as IEEE-754 binary64 values, sign *         *)
(* mantissa * 2^exponent with the mantissa an arbitrary-precision natural  *)
(* (little-endian limbs), every operation rounded to 53 bits, ties to      *)
(* even, as the interpreter rounds it.  Exponent overflow and subnormals   *)
(* are outside the magnitudes the model draws.                             *)
(***************************************************************************)
EXTENDS Integers, Sequences, FiniteSets, TLC

(***************************************************************************)
(* Arbitrary-precision naturals: little-endian sequences of limbs, no      *)
(* high zero limb, <<>> is 0.                                              *)
(***************************************************************************)
LimbBits == 5 * 3
Base == 2 ^ LimbBits
MantBits == 50 + 3

RECURSIVE Pow2(_)
Pow2(n) == IF n = 0 THEN 1 ELSE 2 * Pow2(n - 1)

RECURSIVE BigNorm(_)
BigNorm(a) ==
  IF a = <<>> THEN <<>>
  ELSE IF a[Len(a)] = 0 THEN BigNorm(SubSeq(a, 1, Len(a) - 1)) ELSE a

RECURSIVE BigFromInt(_)
BigFromInt(n) == IF n = 0 THEN <<>> ELSE <<n % Base>> \o BigFromInt(n \div Base)

RECURSIVE BigToInt(_)
BigToInt(a) == IF a = <<>> THEN 0 ELSE a[1] + Base * BigToInt(Tail(a))

Limb(a, i) == IF i <= Len(a) THEN a[i] ELSE 0

RECURSIVE BigAddC(_, _, _)
BigAddC(a, b, c) ==
  IF a = <<>> /\ b = <<>> THEN (IF c = 0 THEN <<>> ELSE <<c>>)
  ELSE LET t == Limb(a, 1) + Limb(b, 1) + c
       IN  <<t % Base>> \o BigAddC(IF a = <<>> THEN <<>> ELSE Tail(a),
                                   IF b = <<>> THEN <<>> ELSE Tail(b),
                                   t \div Base)

BigAdd(a, b) == BigAddC(a, b, 0)

\* a - b for a >= b
RECURSIVE BigSubC(_, _, _)
BigSubC(a, b, c) ==
  IF a = <<>> THEN <<>>
  ELSE LET t == a[1] - Limb(b, 1) - c
       IN  <<IF t < 0 THEN t + Base ELSE t>>
             \o BigSubC(Tail(a), IF b = <<>> THEN <<>> ELSE Tail(b),
                        IF t < 0 THEN 1 ELSE 0)

BigSub(a, b) == BigNorm(BigSubC(a, b, 0))

\* a * k for 0 <= k < Base
RECURSIVE BigMulSmallC(_, _, _)
BigMulSmallC(a, k, c) ==
  IF a = <<>> THEN (IF c = 0 THEN <<>> ELSE <<c>>)
  ELSE LET t == a[1] * k + c
       IN  <<t % Base>> \o BigMulSmallC(Tail(a), k, t \div Base)

BigMulSmall(a, k) == IF k = 0 THEN <<>> ELSE BigMulSmallC(a, k, 0)

RECURSIVE BigMul(_, _)
BigMul(a, b) ==
  IF b = <<>> \/ a = <<>> THEN <<>>
  ELSE LET rest == BigMul(a, Tail(b))
       IN  BigAdd(BigMulSmall(a, b[1]), IF rest = <<>> THEN <<>> ELSE <<0>> \o rest)

\* -1, 0, 1 as a < b, a = b, a > b
RECURSIVE BigCmpAt(_, _, _)
BigCmpAt(a, b, i) ==
  IF i = 0 THEN 0
  ELSE IF a[i] < b[i] THEN -1
  ELSE IF a[i] > b[i] THEN 1
  ELSE BigCmpAt(a, b, i - 1)

BigCmp(a, b) ==
  IF Len(a) < Len(b) THEN -1
  ELSE IF Len(a) > Len(b) THEN 1
  ELSE BigCmpAt(a, b, Len(a))

\* floor(a / k) and a mod k for 0 < k < Base; the limbs are taken from the top
RECURSIVE BigDivSmallAt(_, _, _, _)
BigDivSmallAt(a, k, i, r) ==
  IF i = 0 THEN [q |-> <<>>, r |-> r]
  ELSE LET t == r * Base + a[i]
           lower == BigDivSmallAt(a, k, i - 1, t % k)
       IN  [q |-> lower.q \o <<t \div k>>, r |-> lower.r]

BigDivSmall(a, k) ==
  LET d == BigDivSmallAt(a, k, Len(a), 0) IN [q |-> BigNorm(d.q), r |-> d.r]

\* a * 2^n
BigShl(a, n) ==
  IF a = <<>> THEN <<>>
  ELSE [i \in 1..(n \div LimbBits) |-> 0] \o BigMulSmall(a, Pow2(n % LimbBits))

\* floor(a / 2^n)
BigShr(a, n) ==
  LET drop == n \div LimbBits
  IN  IF drop >= Len(a) THEN <<>>
      ELSE BigDivSmall(SubSeq(a, drop + 1, Len(a)), Pow2(n % LimbBits)).q

\* bit i of a (bit 0 is the lowest)
BigBit(a, i) == (Limb(a, (i \div LimbBits) + 1) \div Pow2(i % LimbBits)) % 2

\* whether the n lowest bits of a are all 0
BigLowZero(a, n) ==
  /\ \A j \in 1..(n \div LimbBits) : Limb(a, j) = 0
  /\ Limb(a, (n \div LimbBits) + 1) % Pow2(n % LimbBits) = 0

RECURSIVE IntBitLen(_)
IntBitLen(n) == IF n = 0 THEN 0 ELSE 1 + IntBitLen(n \div 2)

BigBitLen(a) ==
  IF a = <<>> THEN 0 ELSE (Len(a) - 1) * LimbBits + IntBitLen(a[Len(a)])

RECURSIVE BigTrailingZeros(_)
BigTrailingZeros(a) ==
  IF a[1] = 0 THEN LimbBits + BigTrailingZeros(Tail(a))
  ELSE CHOOSE t \in 0..LimbBits : a[1] % Pow2(t) = 0 /\ (a[1] \div Pow2(t)) % 2 = 1

(***************************************************************************)
(* binary64 values: [sgn, m, e] is sgn * m * 2^e, canonical when m is odd  *)
(* (or m = 0, e = 0, sgn = 1), so equal numbers are equal records.         *)
(***************************************************************************)
FZero == [sgn |-> 1, m |-> <<>>, e |-> 0]

FCanon(sgn, M, E) ==
  IF M = <<>> THEN FZero
  ELSE LET t == BigTrailingZeros(M)
       IN  [sgn |-> sgn, m |-> BigShr(M, t), e |-> E + t]

\* sgn * (M + f) * 2^E rounded to 53 bits, ties to even, where 0 <= f < 1 and
\* sticky says f > 0 (M has more than 54 bits whenever sticky)
FRound(sgn, M, E, sticky) ==
  LET L == BigBitLen(M)
  IN  IF L <= MantBits THEN FCanon(sgn, M, E)
      ELSE LET s == L - MantBits
               q == BigShr(M, s)
               guard == BigBit(M, s - 1) = 1
               st == sticky \/ ~BigLowZero(M, s - 1)
               up == guard /\ (st \/ BigBit(q, 0) = 1)
           IN  FCanon(sgn, IF up THEN BigAdd(q, <<1>>) ELSE q, E + s)

FromInt(n) == IF n < 0 THEN FCanon(-1, BigFromInt(-n), 0) ELSE FCanon(1, BigFromInt(n), 0)

\* n / 2^k, exact: the numbers a JSON literal such as 7.5 or 0.125 denotes
Dyadic(n, k) == FCanon(1, BigFromInt(n), -k)

FAdd(x, y) ==
  LET e == IF x.e < y.e THEN x.e ELSE y.e
      a == BigShl(x.m, x.e - e)
      b == BigShl(y.m, y.e - e)
  IN  IF x.sgn = y.sgn THEN FRound(x.sgn, BigAdd(a, b), e, FALSE)
      ELSE IF BigCmp(a, b) >= 0 THEN FRound(x.sgn, BigSub(a, b), e, FALSE)
      ELSE FRound(y.sgn, BigSub(b, a), e, FALSE)

FMul(x, y) == FRound(x.sgn * y.sgn, BigMul(x.m, y.m), x.e + y.e, FALSE)

\* x / k for an integer 0 < k < Base, correctly rounded
FDivInt(x, k) ==
  LET d == BigDivSmall(BigShl(x.m, 5 * LimbBits), k)
  IN  FRound(x.sgn, d.q, x.e - 5 * LimbBits, d.r # 0)

\* -1, 0, 1 as x < y, x = y, x > y
FCmp(x, y) ==
  IF x.sgn # y.sgn THEN (IF x.sgn < y.sgn THEN -1 ELSE 1)
  ELSE LET e == IF x.e < y.e THEN x.e ELSE y.e
       IN  x.sgn * BigCmp(BigShl(x.m, x.e - e), BigShl(y.m, y.e - e))

\* round(x, ndigits) of a float: the integer k with k / 10^ndigits the decimal of
\* ndigits places nearest to the exact value of x, ties to the even k
RoundDecimal(x, ndigits) ==
  LET N == BigMul(x.m, BigFromInt(10 ^ ndigits))
  IN  IF x.e >= 0 THEN x.sgn * BigToInt(BigShl(N, x.e))
      ELSE LET s == -x.e
               q == BigShr(N, s)
               guard == BigBit(N, s - 1) = 1
               st == ~BigLowZero(N, s - 1)
               up == guard /\ (st \/ BigBit(q, 0) = 1)
           IN  x.sgn * (BigToInt(q) + IF up THEN 1 ELSE 0)

\* ... and the float the interpreter returns for it: the double nearest k / 10^ndigits
PyRound(x, ndigits) == FDivInt(FromInt(RoundDecimal(x, ndigits)), 10 ^ ndigits)

(***************************************************************************)
(* Python values.  A number is a binary64 record; the other JSON values a  *)
(* judge can put where a score belongs are a string and null.  A dict is   *)
(* a sequence of [k, v] items with distinct keys, in insertion order.      *)
(***************************************************************************)
PyStr(s) == [str |-> s]
PyNone == [none |-> TRUE]

\* isinstance(v, (int, float))
IsNumber(v) == DOMAIN v = {"sgn", "m", "e"}

DictKeys(d) == {d[i].k : i \in 1..Len(d)}

\* d.get(key, default)
DictGet(d, key, default) ==
  IF key \in DictKeys(d) THEN d[CHOOSE i \in 1..Len(d) : d[i].k = key].v ELSE default

\* d[key] = value
DictSet(d, key, value) ==
  IF key \in DictKeys(d)
  THEN [i \in 1..Len(d) |-> IF d[i].k = key THEN [k |-> key, v |-> value] ELSE d[i]]
  ELSE Append(d, [k |-> key, v |-> value])

\* list(d.values())
DictValues(d) == [i \in 1..Len(d) |-> d[i].v]

\* [s for s in xs if isinstance(s, (int, float))]
RECURSIVE NumbersOf(_)
NumbersOf(xs) ==
  IF xs = <<>> THEN <<>>
  ELSE (IF IsNumber(Head(xs)) THEN <<Head(xs)>> ELSE <<>>) \o NumbersOf(Tail(xs))

\* sum(xs) of numbers: left to right from the int 0
RECURSIVE PySumFrom(_, _)
PySumFrom(xs, acc) ==
  IF xs = <<>> THEN acc ELSE PySumFrom(Tail(xs), FAdd(acc, Head(xs)))

PySum(xs) == PySumFrom(xs, FromInt(0))

(***************************************************************************)
(* utils.calculate_total_score                                             *)
(***************************************************************************)
\* sum(c['weight'] for c in rubric['criteria'])
RECURSIVE TotalWeight(_)
TotalWeight(criteria) ==
  IF criteria = <<>> THEN 0 ELSE Head(criteria).weight + TotalWeight(Tail(criteria))

\* the loop over rubric['criteria']: total_score after the criteria from position i on
RECURSIVE WeightedLoop(_, _, _, _, _)
WeightedLoop(scores, criteria, total_weight, i, total_score) ==
  IF i > Len(criteria) THEN total_score
  ELSE LET name == criteria[i].name
           weight == criteria[i].weight
           score == DictGet(scores, name, FromInt(0))
       IN  IF IsNumber(score)
           THEN LET normalized_weight == FDivInt(FromInt(weight), total_weight)
                IN  WeightedLoop(scores, criteria, total_weight, i + 1,
                                 FAdd(total_score, FMul(score, normalized_weight)))
           ELSE WeightedLoop(scores, criteria, total_weight, i + 1, total_score)

\* the scorer scaled to 0-100 (the variant commented out at the function's end)
calculate_total_score_x10(scores, rubric) ==
  LET total_weight == TotalWeight(rubric.criteria)
  IN  IF total_weight = 0
      THEN LET valid_scores == NumbersOf(DictValues(scores))
           IN  IF valid_scores # <<>>
               THEN FDivInt(PySum(valid_scores), Len(valid_scores))
               ELSE FromInt(0)
      ELSE PyRound(FMul(WeightedLoop(scores, rubric.criteria, total_weight, 1, FromInt(0)),
                        FromInt(10)), 2)

\* the scorer dividing the zero-weight sum by the number of entries, numeric or not
calculate_total_score_len(scores, rubric) ==
  LET total_weight == TotalWeight(rubric.criteria)
  IN  IF total_weight = 0
      THEN LET valid_scores == NumbersOf(DictValues(scores))
           IN  IF valid_scores # <<>>
               THEN FDivInt(PySum(valid_scores), Len(scores))
               ELSE FromInt(0)
      ELSE PyRound(WeightedLoop(scores, rubric.criteria, total_weight, 1, FromInt(0)), 2)

calculate_total_score(scores, rubric) ==
  LET total_weight == TotalWeight(rubric.criteria)
  IN  IF total_weight = 0
      THEN LET valid_scores == NumbersOf(DictValues(scores))
           IN  IF valid_scores # <<>>
               THEN FDivInt(PySum(valid_scores), Len(valid_scores))
               ELSE FromInt(0)
      ELSE PyRound(WeightedLoop(scores, rubric.criteria, total_weight, 1, FromInt(0)), 2)

(***************************************************************************)
(* Text.  A str is a sequence of tokens: the characters ".", " " and "\n"  *)
(* that split and strip look at stand alone, any other token is a run of   *)
(* text holding none of them at its ends.                                  *)
(***************************************************************************)
Whitespace == {" ", "\n"}

\* s.split(sep) for a one-character sep
RECURSIVE Split(_, _)
Split(s, sep) ==
  IF \A i \in 1..Len(s) : s[i] # sep THEN <<s>>
  ELSE LET i == CHOOSE j \in 1..Len(s) : s[j] = sep /\ \A l \in 1..(j - 1) : s[l] # sep
       IN  <<SubSeq(s, 1, i - 1)>> \o Split(SubSeq(s, i + 1, Len(s)), sep)

\* s.strip()
RECURSIVE Strip(_)
Strip(s) ==
  IF s = <<>> THEN s
  ELSE IF s[1] \in Whitespace THEN Strip(Tail(s))
  ELSE IF s[Len(s)] \in Whitespace THEN Strip(SubSeq(s, 1, Len(s) - 1))
  ELSE s

\* [p.strip() for p in parts if p.strip()]
RECURSIVE StripNonEmpty(_)
StripNonEmpty(parts) ==
  IF parts = <<>> THEN <<>>
  ELSE (IF Strip(Head(parts)) # <<>> THEN <<Strip(Head(parts))>> ELSE <<>>)
       \o StripNonEmpty(Tail(parts))

\* sep.join(parts)
RECURSIVE Join(_, _)
Join(sep, parts) ==
  IF parts = <<>> THEN <<>>
  ELSE IF Len(parts) = 1 THEN parts[1]
  ELSE parts[1] \o sep \o Join(sep, Tail(parts))

\* s.endswith(c) for a one-character c
EndsWith(s, c) == s # <<>> /\ s[Len(s)] = c

\* sub in s
Contains(s, sub) == \E i \in 1..(Len(s) - Len(sub) + 1) : SubSeq(s, i, i + Len(sub) - 1) = sub

\* list(set(xs)): the elements of xs, once each, in the iteration order of a set of
\* str, which follows the process's string hashes: hash_order lists every str in
\* the order this process iterates them
RECURSIVE SetList(_, _)
SetList(xs, hash_order) ==
  IF hash_order = <<>> THEN <<>>
  ELSE (IF \E i \in 1..Len(xs) : xs[i] = Head(hash_order) THEN <<Head(hash_order)>> ELSE <<>>)
       \o SetList(xs, Tail(hash_order))

(***************************************************************************)
(* utils.summarize_rationales, utils.summarize_feedback                    *)
(***************************************************************************)
summarize_rationales(gpt_rationale, claude_rationale, hash_order) ==
  LET gpt_sentences == StripNonEmpty(Split(gpt_rationale, "."))
      claude_sentences == StripNonEmpty(Split(claude_rationale, "."))
      gpt_key_points ==
        SubSeq(gpt_sentences, 1, IF Len(gpt_sentences) < 2 THEN Len(gpt_sentences) ELSE 2)
      claude_key_points ==
        SubSeq(claude_sentences, 1,
               IF Len(claude_sentences) < 2 THEN Len(claude_sentences) ELSE 2)
      all_points == SetList(gpt_key_points \o claude_key_points, hash_order)
      combined == Join(<<".", " ">>, all_points)
  IN  IF ~EndsWith(combined, ".") THEN combined \o <<".">> ELSE combined

\* [f"* {point}" for point in points] (the source's bullet is a non-ASCII character)
RECURSIVE Bulleted(_)
Bulleted(points) ==
  IF points = <<>> THEN <<>> ELSE <<<<"* ">> \o Head(points)>> \o Bulleted(Tail(points))

summarize_feedback(gpt_feedback, claude_feedback, hash_order) ==
  LET gpt_points == StripNonEmpty(Split(gpt_feedback, "\n"))
      claude_points == StripNonEmpty(Split(claude_feedback, "\n"))
      all_points == SetList(gpt_points \o claude_points, hash_order)
  IN  Join(<<"\n">>, Bulleted(all_points))

(***************************************************************************)
(* utils.get_combined_judgment, from the two judges' records on.  A judge  *)
(* record is a record with the keys of the dict: {error} or {scores,       *)
(* rationales, feedback}.  A call that raises returns the exception: its   *)
(* type and str(e).                                                        *)
(***************************************************************************)
Raised(type, msg) == [raised |-> type, msg |-> msg]

\* rec.get(key, default) of a dict modelled as a record
RecGet(rec, key, default) == IF key \in DOMAIN rec THEN rec[key] ELSE default

\* round((gpt_score + claude_score) / 2, 1), numbers only
CombineScoresNoRound(gpt_score, claude_score) == FDivInt(FAdd(gpt_score, claude_score), 2)

CombineScores(gpt_score, claude_score) ==
  PyRound(FDivInt(FAdd(gpt_score, claude_score), 2), 1)

\* gpt_score + claude_score raises TypeError unless both are numbers
ScoresRaise(gpt_result, claude_result, criteria) ==
  \E i \in 1..Len(criteria) :
    ~(/\ IsNumber(DictGet(gpt_result.scores, criteria[i].name, FromInt(0)))
      /\ IsNumber(DictGet(claude_result.scores, criteria[i].name, FromInt(0))))

\* the loop "Combine scores by averaging": the dict after the criteria from i on
RECURSIVE CombinedScoresLoop(_, _, _, _, _)
CombinedScoresLoop(gpt_result, claude_result, criteria, i, combined_scores) ==
  IF i > Len(criteria) THEN combined_scores
  ELSE LET name == criteria[i].name
           gpt_score == DictGet(gpt_result.scores, name, FromInt(0))
           claude_score == DictGet(claude_result.scores, name, FromInt(0))
       IN  CombinedScoresLoop(gpt_result, claude_result, criteria, i + 1,
             DictSet(combined_scores, name, CombineScores(gpt_score, claude_score)))

\* the loop "Combine rationales"
RECURSIVE CombinedRationalesLoop(_, _, _, _, _, _)
CombinedRationalesLoop(gpt_result, claude_result, criteria, i, combined_rationales, hash_order) ==
  IF i > Len(criteria) THEN combined_rationales
  ELSE LET name == criteria[i].name
           gpt_rationale == DictGet(gpt_result.rationales, name, <<>>)
           claude_rationale == DictGet(claude_result.rationales, name, <<>>)
       IN  CombinedRationalesLoop(gpt_result, claude_result, criteria, i + 1,
             DictSet(combined_rationales, name,
                     <<"Combined assessment: ">>
                       \o summarize_rationales(gpt_rationale, claude_rationale, hash_order)),
             hash_order)

\* f"Both models failed: GPT: {gpt_result['error']}, Claude: {claude_result['error']}"
BothFailedMessageGptOnly(gpt_error, claude_error) ==
  <<"Both models failed: GPT: ">> \o gpt_error

BothFailedMessage(gpt_error, claude_error) ==
  <<"Both models failed: GPT: ">> \o gpt_error \o <<", Claude: ">> \o claude_error

\* the record returned when exactly one judge failed
SingleJudgeRecordGpt(gpt_result, claude_result) == gpt_result

SingleJudgeRecord(gpt_result, claude_result) ==
  IF "error" \in DOMAIN gpt_result THEN claude_result ELSE gpt_result

\* the aggregation with the two source records stored under each other's name
get_combined_judgment_sources_swapped(gpt_result, claude_result, rubric, hash_order) ==
  IF "error" \in DOMAIN gpt_result \/ "error" \in DOMAIN claude_result
  THEN IF "error" \in DOMAIN gpt_result /\ "error" \in DOMAIN claude_result
       THEN [error |-> BothFailedMessage(gpt_result.error, claude_result.error)]
       ELSE SingleJudgeRecord(gpt_result, claude_result)
  ELSE LET combined_scores ==
             CombinedScoresLoop(gpt_result, claude_result, rubric.criteria, 1, <<>>)
           combined_rationales ==
             CombinedRationalesLoop(gpt_result, claude_result, rubric.criteria, 1, <<>>,
                                    hash_order)
           combined_feedback ==
             <<"Combined feedback from multiple AI judges:", "\n", "\n">>
               \o summarize_feedback(RecGet(gpt_result, "feedback", <<>>),
                                     RecGet(claude_result, "feedback", <<>>), hash_order)
       IN  IF ScoresRaise(gpt_result, claude_result, rubric.criteria)
           THEN Raised("TypeError", <<"unsupported operand type(s) for +">>)
           ELSE [scores |-> combined_scores,
                 rationales |-> combined_rationales,
                 feedback |-> combined_feedback,
                 individual_judgments |-> [gpt |-> claude_result, claude |-> gpt_result]]

get_combined_judgment(gpt_result, claude_result, rubric, hash_order) ==
  IF "error" \in DOMAIN gpt_result \/ "error" \in DOMAIN claude_result
  THEN IF "error" \in DOMAIN gpt_result /\ "error" \in DOMAIN claude_result
       THEN [error |-> BothFailedMessage(gpt_result.error, claude_result.error)]
       ELSE SingleJudgeRecord(gpt_result, claude_result)
  ELSE LET combined_scores ==
             CombinedScoresLoop(gpt_result, claude_result, rubric.criteria, 1, <<>>)
           combined_rationales ==
             CombinedRationalesLoop(gpt_result, claude_result, rubric.criteria, 1, <<>>,
                                    hash_order)
           combined_feedback ==
             <<"Combined feedback from multiple AI judges:", "\n", "\n">>
               \o summarize_feedback(RecGet(gpt_result, "feedback", <<>>),
                                     RecGet(claude_result, "feedback", <<>>), hash_order)
       IN  IF ScoresRaise(gpt_result, claude_result, rubric.criteria)
           THEN Raised("TypeError", <<"unsupported operand type(s) for +">>)
           ELSE [scores |-> combined_scores,
                 rationales |-> combined_rationales,
                 feedback |-> combined_feedback,
                 individual_judgments |-> [gpt |-> gpt_result, claude |-> claude_result]]

(***************************************************************************)
(* app.py, the ranking step of a judging run:                              *)
(*   results_list.sort(key=lambda x: x.get("Total Score", -1), reverse=True)*)
(* A result is a record with the keys of the dict, "Total Score" written   *)
(* Total_Score.  list.sort is stable, also with reverse=True, and raises   *)
(* TypeError when it compares a key that is not a number.                  *)
(***************************************************************************)
SortKey(x) == RecGet(x, "Total_Score", FromInt(-1))

\* every element of a list of two or more is compared at least once
SortRaises(results_list) ==
  /\ Len(results_list) >= 2
  /\ \E i \in 1..Len(results_list) : ~IsNumber(SortKey(results_list[i]))

\* x put behind the elements of the sorted list whose key is not smaller
RECURSIVE InsertDescending(_, _)
InsertDescending(sorted, x) ==
  IF sorted = <<>> THEN <<x>>
  ELSE IF FCmp(SortKey(Head(sorted)), SortKey(x)) >= 0
       THEN <<Head(sorted)>> \o InsertDescending(Tail(sorted), x)
       ELSE <<x>> \o sorted

RECURSIVE StableSortDescending(_, _, _)
StableSortDescending(results_list, i, sorted) ==
  IF i > Len(results_list) THEN sorted
  ELSE StableSortDescending(results_list, i + 1, InsertDescending(sorted, results_list[i]))

\* a sort that puts equal totals in reverse processing order
SortResultsTiesReversed(results_list) ==
  StableSortDescending([i \in 1..Len(results_list) |->
                          results_list[Len(results_list) + 1 - i]], 1, <<>>)

\* the list after the sort, or the exception the sort raises
SortResults(results_list) ==
  IF SortRaises(results_list)
  THEN Raised("TypeError", <<"'<' not supported between instances">>)
  ELSE StableSortDescending(results_list, 1, <<>>)

(***************************************************************************)
(* app.py, the processing of one pending project inside a judging run.     *)
(* The collaborators (video download, audio extraction, transcription,     *)
(* README fetch, the two judges) are outside the program: what they return *)
(* is an input of the step.  Texts are token sequences; a text begins with *)
(* "Error:" exactly when that is its first token.  An absent URL or link   *)
(* (None or "") is the empty text.                                         *)
(***************************************************************************)
StartsWith(s, prefix) == s # <<>> /\ Head(s) = prefix

HasVideoUrl(project) ==
  /\ project.video_url # <<>>
  /\ project.video_url # <<"Video URL Not Found">>
  /\ project.video_url # <<"N/A">>

HasRepoLink(project) ==
  /\ project.repo_link # <<>>
  /\ project.repo_link # <<"GitHub Link Not Found">>
  /\ project.repo_link # <<"N/A">>

\* steps 1-3: downloaded and audio_extracted say whether the collaborator returned a
\* path, transcribed is what transcribe_audio returns
GatherTranscript(project, downloaded, audio_extracted, transcribed) ==
  IF HasVideoUrl(project)
  THEN IF ~downloaded THEN <<"N/A - No video available">>
       ELSE IF ~audio_extracted THEN <<"N/A - Audio extraction failed">>
       ELSE transcribed
  ELSE <<"N/A - No video URL provided">>

\* step 4: fetched is what fetch_readme returns (the texts drawn are shorter than the
\* 4000 characters the slice keeps)
GatherReadme(project, fetched) ==
  IF HasRepoLink(project) THEN fetched
  ELSE <<"N/A - No GitHub repository link provided">>

\* the default scores left empty
NoScores(rubric) == <<>>

\* {c['name']: 0 for c in final_custom_rubric['criteria']}
ZeroScores(rubric) ==
  [i \in 1..Len(rubric.criteria) |-> [k |-> rubric.criteria[i].name, v |-> FromInt(0)]]

\* {c['name']: f"Judging failed: {error}" for c in final_custom_rubric['criteria']}
FailedRationales(rubric, error) ==
  [i \in 1..Len(rubric.criteria) |->
     [k |-> rubric.criteria[i].name, v |-> <<"Judging failed: ">> \o error]]

\* the status and the result fields the try block or its except clause leaves, given
\* what get_combined_judgment returned or raised
JudgedFields(ai_result, rubric) ==
  IF "raised" \in DOMAIN ai_result
  THEN [status |-> <<"Error: ">> \o ai_result.msg,
        total_score |-> FromInt(0),
        scores |-> ZeroScores(rubric),
        rationales |-> FailedRationales(rubric, ai_result.msg),
        feedback |-> <<"Processing Error: ">> \o ai_result.msg]
  ELSE IF "error" \in DOMAIN ai_result
  THEN [status |-> <<"Error">>,
        total_score |-> FromInt(0),
        scores |-> ZeroScores(rubric),
        rationales |-> FailedRationales(rubric, ai_result.error),
        feedback |-> <<"AI Judging Error: ">> \o ai_result.error]
  ELSE [status |-> <<"Judged">>,
        total_score |-> calculate_total_score(RecGet(ai_result, "scores", <<>>), rubric),
        scores |-> RecGet(ai_result, "scores", <<>>),
        rationales |-> RecGet(ai_result, "rationales", <<>>),
        feedback |-> RecGet(ai_result, "feedback", <<"No feedback provided by AI", ".">>)]

\* the dict appended to results_list
ResultRecord(project, fields, transcript, readme_content) ==
  [Project_Name |-> project.name,
   Description |-> project.description,
   Total_Score |-> fields.total_score,
   scores |-> fields.scores,
   Rationales |-> fields.rationales,
   feedback |-> fields.feedback,
   Transcript |-> transcript,
   README |-> readme_content,
   Status |-> fields.status]

\* an optional str argument: None or the text
PyText(text) == [text |-> text]

\* the text passed on whatever it begins with
WithErrorMarker(text) == PyText(text)

\* transcript if not transcript.startswith("Error:") else None
WithoutErrorMarker(text) == IF StartsWith(text, "Error:") THEN PyNone ELSE PyText(text)

\* commit_info of the prompt: commit_count is what get_github_commit_count returned,
\* None or [count |-> n] with n the number as it is printed, asked only for a
\* repo_url holding "github.com"
CommitInfo(project, commit_count) ==
  IF HasRepoLink(project) /\ commit_count # PyNone
  THEN <<"\n", "4. **GitHub Repository Commit Count:** ", commit_count.count, " commits">>
         \o (IF commit_count.count = "1"
             THEN <<" (Note: Having only a single commit may indicate limited development effort or history, which should be considered when evaluating Technicality)">>
             ELSE <<>>)
  ELSE <<>>

\* the "Project Information" of the prompt both judges are sent
JudgePrompt(project_description, pitch_transcript, readme_content, commit_info) ==
  <<"**Project Information:**", "\n", "1.  **Project Description:** ">>
    \o project_description
    \o <<"\n", "2.  **Pitch Transcript:** ">>
    \o (IF pitch_transcript # PyNone /\ pitch_transcript.text # <<>>
        THEN pitch_transcript.text ELSE <<"Not available">>)
    \o <<"\n", "3.  **README Content:** ">>
    \o (IF /\ readme_content # PyNone
           /\ readme_content.text # <<>>
           /\ ~StartsWith(readme_content.text, "Error:")
        THEN readme_content.text ELSE <<"Not available">>)
    \o commit_info

\* utils.DEFAULT_RUBRIC
DEFAULT_RUBRIC ==
  [criteria |-> <<[name |-> "Technicality", weight |-> 20],
                  [name |-> "Originality", weight |-> 20],
                  [name |-> "Practicality", weight |-> 20],
                  [name |-> "Usability (UI/UX/DX)", weight |-> 20],
                  [name |-> "WOW Factor", weight |-> 20]>>,
   scale |-> <<FromInt(1), FromInt(10)>>]

\* criterion['weight'] of the criterion called name
WeightOf(rubric, name) ==
  LET i == CHOOSE j \in 1..Len(rubric.criteria) : rubric.criteria[j].name = name
  IN  rubric.criteria[i].weight

RubricNameSet(rubric) == {rubric.criteria[i].name : i \in 1..Len(rubric.criteria)}

\* the deep copy of DEFAULT_RUBRIC with criterion['weight'] = custom_weights.get(name, 0)
FinalCustomRubric(weights) ==
  [DEFAULT_RUBRIC EXCEPT
     !.criteria = [i \in 1..Len(DEFAULT_RUBRIC.criteria) |->
                     [name |-> DEFAULT_RUBRIC.criteria[i].name,
                      weight |-> IF DEFAULT_RUBRIC.criteria[i].name \in DOMAIN weights
                                 THEN weights[DEFAULT_RUBRIC.criteria[i].name]
                                 ELSE 0]]]

\* total_weight of the weight widgets
WeightsTotal(weights) == TotalWeight(FinalCustomRubric(weights).criteria)

(***************************************************************************)
(* json.loads over the text a backend returns.  The text is a sequence of  *)
(* tokens: punctuation { } [ ] : , a string literal, a number literal,     *)
(* whitespace, a word of prose, a code fence (three backquotes, written as *)
(* the word that follows them: "json" or "").  The decoded value is a      *)
(* number, PyStr(text), PyList(elements) or PyDict(items); a text that is  *)
(* not one JSON document raises JSONDecodeError.  A dict key is a text of  *)
(* one token and is written as that token.                                 *)
(***************************************************************************)
PyList(xs) == [list |-> xs]
PyDict(d) == [dict |-> d]

Punct(c) == [t |-> "p", c |-> c]
StrLit(text) == [t |-> "s", text |-> text]
NumLit(num) == [t |-> "n", num |-> num]
Space == [t |-> "ws", c |-> " "]
Word(c) == [t |-> "w", c |-> c]
Fence(c) == [t |-> "f", c |-> c]

IsPunct(tok, c) == tok.t = "p" /\ tok.c = c

RECURSIVE SkipSpace(_, _)
SkipSpace(toks, i) ==
  IF i <= Len(toks) /\ toks[i].t = "ws" THEN SkipSpace(toks, i + 1) ELSE i

ParseFail == [ok |-> FALSE]
Parsed(value, next) == [ok |-> TRUE, value |-> value, next |-> next]

RECURSIVE ParseValue(_, _)
RECURSIVE ParseMembers(_, _, _)
RECURSIVE ParseElements(_, _, _)

\* the members of an object after "{" or ",": key : value, then "," or "}"
ParseMembers(toks, start, items) ==
  LET i == SkipSpace(toks, start)
  IN  IF i > Len(toks) \/ toks[i].t # "s" \/ Len(toks[i].text) # 1 THEN ParseFail
      ELSE LET c == SkipSpace(toks, i + 1)
           IN  IF c > Len(toks) \/ ~IsPunct(toks[c], ":") THEN ParseFail
               ELSE LET v == ParseValue(toks, c + 1)
                    IN  IF ~v.ok THEN ParseFail
                        ELSE LET e == SkipSpace(toks, v.next)
                                 set == DictSet(items, toks[i].text[1], v.value)
                             IN  IF e > Len(toks) THEN ParseFail
                                 ELSE IF IsPunct(toks[e], ",")
                                      THEN ParseMembers(toks, e + 1, set)
                                 ELSE IF IsPunct(toks[e], "}")
                                      THEN Parsed(PyDict(set), e + 1)
                                 ELSE ParseFail

\* the elements of an array after "[" or ",": value, then "," or "]"
ParseElements(toks, start, elems) ==
  LET v == ParseValue(toks, start)
  IN  IF ~v.ok THEN ParseFail
      ELSE LET e == SkipSpace(toks, v.next)
           IN  IF e > Len(toks) THEN ParseFail
               ELSE IF IsPunct(toks[e], ",")
                    THEN ParseElements(toks, e + 1, Append(elems, v.value))
               ELSE IF IsPunct(toks[e], "]")
                    THEN Parsed(PyList(Append(elems, v.value)), e + 1)
               ELSE ParseFail

ParseValue(toks, start) ==
  LET i == SkipSpace(toks, start)
      j == SkipSpace(toks, i + 1)
  IN  IF i > Len(toks) THEN ParseFail
      ELSE IF toks[i].t = "s" THEN Parsed(PyStr(toks[i].text), i + 1)
      ELSE IF toks[i].t = "n" THEN Parsed(toks[i].num, i + 1)
      ELSE IF IsPunct(toks[i], "{")
           THEN IF j <= Len(toks) /\ IsPunct(toks[j], "}")
                THEN Parsed(PyDict(<<>>), j + 1)
                ELSE ParseMembers(toks, i + 1, <<>>)
      ELSE IF IsPunct(toks[i], "[")
           THEN IF j <= Len(toks) /\ IsPunct(toks[j], "]")
                THEN Parsed(PyList(<<>>), j + 1)
                ELSE ParseElements(toks, i + 1, <<>>)
      ELSE ParseFail

\* json.loads(text): the decoded value, or the JSONDecodeError it raises
json_loads(toks) ==
  LET v == ParseValue(toks, 1)
  IN  IF v.ok /\ SkipSpace(toks, v.next) > Len(toks)
      THEN v.value
      ELSE Raised("JSONDecodeError", <<"Expecting value">>)

(***************************************************************************)
(* utils.get_ai_judgment and utils.get_claude_judgment, from the API key   *)
(* check on.  The backend is outside the program: whether the key is set   *)
(* and what the call does are inputs.  A reply is [raises |-> message] (the*)
(* call raised), [empty |-> TRUE] (no choice, no content block) or         *)
(* [content |-> text].  The dict an adapter returns is written as a judge  *)
(* record: a record with the keys of the dict, scores and rationales as    *)
(* dicts, rationale and feedback strings as texts.                         *)
(***************************************************************************)
Unwrapped(v) ==
  IF "str" \in DOMAIN v THEN v.str ELSE IF "dict" \in DOMAIN v THEN v.dict ELSE v

UnwrappedValues(v) ==
  IF "dict" \in DOMAIN v
  THEN [i \in 1..Len(v.dict) |-> [k |-> v.dict[i].k, v |-> Unwrapped(v.dict[i].v)]]
  ELSE v

\* parsed_result, a dict, as a judge record
JudgeRecordOf(items) ==
  [key \in DictKeys(items) |->
     IF key = "scores" THEN Unwrapped(DictGet(items, key, PyNone))
     ELSE IF key = "rationales" THEN UnwrappedValues(DictGet(items, key, PyNone))
     ELSE Unwrapped(DictGet(items, key, PyNone))]

\* key in parsed_result, for a dict, a list or a str (a number raises TypeError)
PyIn(key, parsed) ==
  IF "dict" \in DOMAIN parsed THEN key \in DictKeys(parsed.dict)
  ELSE IF "list" \in DOMAIN parsed
       THEN \E i \in 1..Len(parsed.list) : parsed.list[i] = PyStr(<<key>>)
  ELSE IF "str" \in DOMAIN parsed THEN Contains(parsed.str, <<key>>)
  ELSE FALSE

\* the validation with the feedback key left out of the presence test
ValidateParsedFeedbackOptional(parsed, rubric, who) ==
  IF IsNumber(parsed)
  THEN Raised("TypeError", <<"argument of type 'int' is not iterable">>)
  ELSE IF ~(PyIn("scores", parsed) /\ PyIn("rationales", parsed))
  THEN [error |-> <<"Invalid JSON structure from ", who, " (missing keys)", ".">>]
  ELSE IF "dict" \notin DOMAIN parsed
  THEN Raised("TypeError", <<"indices must be integers">>)
  ELSE JudgeRecordOf(parsed.dict)

\* the validation with a key set that differs from the rubric rejected
ValidateParsedExactKeys(parsed, rubric, who) ==
  IF IsNumber(parsed)
  THEN Raised("TypeError", <<"argument of type 'int' is not iterable">>)
  ELSE IF ~(PyIn("scores", parsed) /\ PyIn("rationales", parsed) /\ PyIn("feedback", parsed))
  THEN [error |-> <<"Invalid JSON structure from ", who, " (missing keys)", ".">>]
  ELSE IF "dict" \notin DOMAIN parsed
  THEN Raised("TypeError", <<"indices must be integers">>)
  ELSE LET expected_keys == RubricNameSet(rubric)
           scores == DictGet(parsed.dict, "scores", PyNone)
           rationales == DictGet(parsed.dict, "rationales", PyNone)
       IN  IF "dict" \notin DOMAIN scores \/ "dict" \notin DOMAIN rationales
           THEN Raised("AttributeError", <<"object has no attribute 'keys'">>)
           ELSE IF /\ DictKeys(scores.dict) = expected_keys
                   /\ DictKeys(rationales.dict) = expected_keys
           THEN JudgeRecordOf(parsed.dict)
           ELSE [error |-> <<"Invalid JSON structure from ", who, " (keys differ)", ".">>]

\* "Basic validation of the JSON structure" after json.loads succeeded: the record
\* returned, or the exception raised, for the judge called who
ValidateParsed(parsed, rubric, who) ==
  IF IsNumber(parsed)
  THEN Raised("TypeError", <<"argument of type 'int' is not iterable">>)
  ELSE IF ~(PyIn("scores", parsed) /\ PyIn("rationales", parsed) /\ PyIn("feedback", parsed))
  THEN [error |-> <<"Invalid JSON structure from ", who, " (missing keys)", ".">>]
  ELSE IF "dict" \notin DOMAIN parsed
  THEN Raised("TypeError", <<"indices must be integers">>)
  ELSE LET expected_keys == RubricNameSet(rubric)
           scores == DictGet(parsed.dict, "scores", PyNone)
           rationales == DictGet(parsed.dict, "rationales", PyNone)
       IN  IF "dict" \notin DOMAIN scores
           THEN Raised("AttributeError", <<"object has no attribute 'keys'">>)
           ELSE IF DictKeys(scores.dict) = expected_keys /\ "dict" \notin DOMAIN rationales
           THEN Raised("AttributeError", <<"object has no attribute 'keys'">>)
           ELSE IF /\ DictKeys(scores.dict) = expected_keys
                   /\ DictKeys(rationales.dict) = expected_keys
           THEN JudgeRecordOf(parsed.dict)
           ELSE JudgeRecordOf(parsed.dict)

\* the try block of get_ai_judgment without its "except Exception"
GptTryBody(rubric, reply) ==
  IF "raises" \in DOMAIN reply THEN Raised("APIError", reply.raises)
  ELSE IF "empty" \in DOMAIN reply \/ reply.content = <<>>
  THEN [error |-> <<"Empty response from AI", ".">>]
  ELSE LET parsed_result == json_loads(reply.content)
       IN  IF "raised" \in DOMAIN parsed_result
           THEN [error |-> <<"AI returned invalid JSON: ">> \o parsed_result.msg]
           ELSE ValidateParsed(parsed_result, rubric, "AI")

\* get_ai_judgment with the exception of the try block escaping
get_ai_judgment_uncaught(rubric, backend) ==
  IF ~backend.api_key THEN [error |-> <<"OpenAI API Key not configured", ".">>]
  ELSE GptTryBody(rubric, backend.reply)

get_ai_judgment(rubric, backend) ==
  IF ~backend.api_key THEN [error |-> <<"OpenAI API Key not configured", ".">>]
  ELSE LET result == GptTryBody(rubric, backend.reply)
       IN  IF "raised" \in DOMAIN result
           THEN [error |-> <<"API call failed: ">> \o result.msg]
           ELSE result

\* the positions of the tokens of kind t, and of the punctuation c, in a text
KindPositions(toks, t) == {i \in 1..Len(toks) : toks[i].t = t}
PunctPositions(toks, c) == {i \in 1..Len(toks) : IsPunct(toks[i], c)}

Min(S) == CHOOSE x \in S : \A y \in S : x <= y
Max(S) == CHOOSE x \in S : \A y \in S : x >= y

RECURSIVE SkipSpaceBack(_, _)
SkipSpaceBack(toks, i) ==
  IF i >= 1 /\ toks[i].t = "ws" THEN SkipSpaceBack(toks, i - 1) ELSE i

\* "Find JSON in the response": what is between the first json code fence and the
\* next fence, without the whitespace around it; else the text from the first opening
\* brace to the last closing brace; else the whole text
ExtractJson(result_text) ==
  LET opening == {i \in KindPositions(result_text, "f") :
                    /\ result_text[i].c = "json"
                    /\ \E j \in KindPositions(result_text, "f") : j > i}
      open_braces == PunctPositions(result_text, "{")
      close_braces == PunctPositions(result_text, "}")
  IN  IF opening # {}
      THEN LET i == Min(opening)
               j == Min({k \in KindPositions(result_text, "f") : k > i})
           IN  SubSeq(result_text, SkipSpace(result_text, i + 1),
                      SkipSpaceBack(result_text, j - 1))
      ELSE IF open_braces # {} /\ \E b \in close_braces : b > Min(open_braces)
           THEN SubSeq(result_text, Min(open_braces), Max(close_braces))
      ELSE result_text

\* the try block of get_claude_judgment without its "except Exception"
ClaudeTryBody(rubric, reply) ==
  IF "raises" \in DOMAIN reply THEN Raised("APIError", reply.raises)
  ELSE IF "empty" \in DOMAIN reply THEN Raised("IndexError", <<"list index out of range">>)
  ELSE LET parsed_result == json_loads(ExtractJson(reply.content))
       IN  IF "raised" \in DOMAIN parsed_result
           THEN [error |-> <<"Claude returned invalid JSON: ">> \o parsed_result.msg]
           ELSE ValidateParsed(parsed_result, rubric, "Claude")

\* get_claude_judgment with the exception of the try block escaping
get_claude_judgment_uncaught(rubric, backend) ==
  IF ~backend.api_key THEN [error |-> <<"Anthropic API Key not configured", ".">>]
  ELSE ClaudeTryBody(rubric, backend.reply)

get_claude_judgment(rubric, backend) ==
  IF ~backend.api_key THEN [error |-> <<"Anthropic API Key not configured", ".">>]
  ELSE LET result == ClaudeTryBody(rubric, backend.reply)
       IN  IF "raised" \in DOMAIN result
           THEN [error |-> <<"API call failed: ">> \o result.msg]
           ELSE result

(***************************************************************************)
(* State.  The session state of app.py, and, for the specifications that   *)
(* exercise one function of utils.py on drawn inputs, the call's arguments *)
(* and its return value.                                                   *)
(***************************************************************************)
VARIABLES
  projects,             \* st.session_state.projects
  results,              \* st.session_state.results: PyNone or ListValue(list)
  processing,           \* st.session_state.processing
  custom_weights,       \* st.session_state.custom_weights
  pc,                   \* where the script is: "idle" between runs, "loop" in the project loop
  final_custom_rubric,  \* the run's rubric, PyNone outside a run
  results_list,         \* the run's results_list
  loop_index,           \* the position of the project loop in projects
  fn_args,              \* the arguments of the call a function specification makes
  fn_ret,               \* NotCalled, or what the call returned
  hash_order,           \* the order in which this process iterates a set of str
  default_rubric,       \* utils.DEFAULT_RUBRIC, the module's dict
  files,                \* the scratch files and directories on disk
  call                  \* where a call of get_combined_judgment is, NoCall outside one

session_vars == <<projects, results, processing, custom_weights>>
run_vars == <<pc, final_custom_rubric, results_list, loop_index>>
fn_vars == <<fn_args, fn_ret>>
process_vars == <<hash_order, default_rubric>>
vars == <<session_vars, run_vars, fn_vars, process_vars, files, call>>

ListValue(list) == [list |-> list]

\* app.py "Session State Initialization", before any run
\* no call of get_combined_judgment under way
NoCall == [stage |-> "none"]

SessionInit ==
  /\ default_rubric = DEFAULT_RUBRIC
  /\ files = {}
  /\ call = NoCall
  /\ projects = <<>>
  /\ results = PyNone
  /\ processing = FALSE
  /\ custom_weights = [name \in RubricNameSet(DEFAULT_RUBRIC) |-> WeightOf(DEFAULT_RUBRIC, name)]
  /\ pc = "idle"
  /\ final_custom_rubric = PyNone
  /\ results_list = <<>>
  /\ loop_index = 0

NotCalled == [called |-> FALSE]
Returned(v) == [called |-> TRUE, value |-> v]

(***************************************************************************)
(* Inputs drawn for the function specifications.                           *)
(***************************************************************************)
MaxCriteria == 3
CriterionNames == <<"A", "B", "C", "D", "E">>
NameSet == {CriterionNames[i] : i \in 1..MaxCriteria}

\* weights a rubric can carry: integers 0..100 (app.py number_input)
WeightValues == {0, 5, 90, 95}

\* 0.125, 0.5, 5, 7 and a string where a number belongs
ScoreNumbers == {Dyadic(1, 3), Dyadic(1, 1), FromInt(5), FromInt(7)}
ScoreValues == ScoreNumbers \cup {PyStr("high")}
Missing == [missing |-> TRUE]

ScaleValues == {<<FromInt(1), FromInt(10)>>, <<Dyadic(1, 3), FromInt(10)>>}

\* the dict holding, in the order of CriterionNames, those of the first n names that
\* f does not map to Missing
RECURSIVE DictOf(_, _, _)
DictOf(f, i, n) ==
  IF i > n THEN <<>>
  ELSE (IF f[CriterionNames[i]] = Missing THEN <<>>
        ELSE <<[k |-> CriterionNames[i], v |-> f[CriterionNames[i]]]>>)
       \o DictOf(f, i + 1, n)

ScoreMaps == {DictOf(f, 1, MaxCriteria) : f \in [NameSet -> ScoreValues \cup {Missing}]}

RubricsOfLen(n) ==
  {[criteria |-> [i \in 1..n |-> [name |-> CriterionNames[i], weight |-> w[i]]],
    scale |-> sc] : w \in [1..n -> WeightValues], sc \in ScaleValues}

Rubrics == UNION {RubricsOfLen(n) : n \in 0..MaxCriteria}

\* the sentences and lines of the drawn rationales and feedback
PhraseList == <<<<"sound design">>, <<"thin tests">>, <<"clear demo">>>>

Reverse(xs) == [i \in 1..Len(xs) |-> xs[Len(xs) + 1 - i]]

HashOrders == {PhraseList, Reverse(PhraseList)}

(***************************************************************************)
(* SpecScore: calculate_total_score applied to every drawn score map and   *)
(* rubric.                                                                 *)
(***************************************************************************)
InitScore ==
  /\ fn_args \in {[scores |-> s, rubric |-> r] : s \in ScoreMaps, r \in Rubrics}
  /\ fn_ret = NotCalled
  /\ hash_order = PhraseList
  /\ SessionInit

CallCalculateTotalScore ==
  /\ fn_ret = NotCalled
  /\ fn_ret' = Returned(calculate_total_score(fn_args.scores, fn_args.rubric))
  /\ UNCHANGED <<fn_args, process_vars, files, call, session_vars, run_vars>>

NextScore == CallCalculateTotalScore

SpecScore == InitScore /\ [][NextScore]_vars

(***************************************************************************)
(* SpecAgg: get_combined_judgment applied to every pair of drawn judge     *)
(* records.                                                                *)
(***************************************************************************)
MaxAggCriteria == 2
AggNameSet == {CriterionNames[i] : i \in 1..MaxAggCriteria}

\* 6, 8, 7.5, 0.125 and a string where a number belongs
AggScoreValues == {FromInt(6), FromInt(8), Dyadic(15, 1), Dyadic(1, 3), PyStr("high")}

AggScoreMaps ==
  {DictOf(f, 1, MaxAggCriteria) : f \in [AggNameSet -> AggScoreValues \cup {Missing}]}

\* the rationales and the feedback of a judge's answer
JudgeTexts ==
  { [rationales |->
       <<[k |-> "A", v |-> <<"sound design", ".", " ", "thin tests", ".", " ",
                             "clear demo", ".">>],
         [k |-> "B", v |-> <<"thin tests">>]>>,
     feedback |-> <<"sound design", "\n", "clear demo">>],
    [rationales |-> <<[k |-> "A", v |-> <<"thin tests", ".", " ", "sound design">>]>>,
     feedback |-> <<"clear demo", "\n", " ", "thin tests", "\n">>] }

SuccessRecords ==
  {[scores |-> sc, rationales |-> t.rationales, feedback |-> t.feedback] :
     sc \in AggScoreMaps, t \in JudgeTexts}

\* error records of get_ai_judgment and of get_claude_judgment
GptErrorRecords ==
  {[error |-> <<"OpenAI API Key not configured", ".">>],
   [error |-> <<"Empty response from AI", ".">>]}

ClaudeErrorRecords ==
  {[error |-> <<"Anthropic API Key not configured", ".">>],
   [error |-> <<"Invalid JSON structure from Claude (missing keys)", ".">>]}

AggRubrics ==
  {[criteria |-> [i \in 1..n |-> [name |-> CriterionNames[i], weight |-> 50]],
    scale |-> <<FromInt(1), FromInt(10)>>] : n \in 1..MaxAggCriteria}

InitAgg ==
  /\ fn_args \in {[gpt_result |-> g, claude_result |-> c, rubric |-> r] :
                    g \in SuccessRecords \cup GptErrorRecords,
                    c \in SuccessRecords \cup ClaudeErrorRecords,
                    r \in AggRubrics}
  /\ fn_ret = NotCalled
  /\ hash_order \in HashOrders
  /\ SessionInit

CallGetCombinedJudgment ==
  /\ fn_ret = NotCalled
  /\ fn_ret' = Returned(get_combined_judgment(fn_args.gpt_result, fn_args.claude_result,
                                              fn_args.rubric, hash_order))
  /\ UNCHANGED <<fn_args, process_vars, files, call, session_vars, run_vars>>

NextAgg == CallGetCombinedJudgment

SpecAgg == InitAgg /\ [][NextAgg]_vars

(***************************************************************************)
(* SpecRank: the ranking step applied to every drawn results list.  A drawn*)
(* result carries a number as "Total Score", or None, or no such key.      *)
(***************************************************************************)
MaxRanked == 3
RankNames == <<"P1", "P2", "P3", "P4">>

\* 50, 80, -2, None, and Missing for a result without the key
RankTotals == {FromInt(50), FromInt(80), FromInt(-2), PyNone, Missing}

RankResult(name, total) ==
  IF total = Missing THEN [Project_Name |-> name]
  ELSE [Project_Name |-> name, Total_Score |-> total]

RankLists ==
  UNION {{[i \in 1..n |-> RankResult(RankNames[i], t[i])] : t \in [1..n -> RankTotals]} :
           n \in 0..MaxRanked}

InitRank ==
  /\ fn_args \in {[results_list |-> l] : l \in RankLists}
  /\ fn_ret = NotCalled
  /\ hash_order = PhraseList
  /\ SessionInit

CallSortResults ==
  /\ fn_ret = NotCalled
  /\ fn_ret' = Returned(IF SortRaises(fn_args.results_list)
                         THEN SortResults(fn_args.results_list)
                         ELSE ListValue(SortResults(fn_args.results_list)))
  /\ UNCHANGED <<fn_args, process_vars, files, call, session_vars, run_vars>>

NextRank == CallSortResults

SpecRank == InitRank /\ [][NextRank]_vars

(***************************************************************************)
(* SpecAdapter: get_ai_judgment and get_claude_judgment applied to every   *)
(* drawn backend behaviour.  The replies are JSON documents over the       *)
(* criteria A and B, as they are, inside a json code fence, or inside      *)
(* prose, or cut short; and replies that are no JSON at all.               *)
(***************************************************************************)
Item(k, v) == [k |-> k, v |-> v]

RECURSIVE RenderValue(_)
RECURSIVE RenderItems(_)
RECURSIVE RenderElements(_)

RenderItems(items) ==
  IF items = <<>> THEN <<>>
  ELSE <<StrLit(<<Head(items).k>>), Punct(":"), Space>> \o RenderValue(Head(items).v)
       \o (IF Tail(items) = <<>> THEN <<>> ELSE <<Punct(","), Space>> \o RenderItems(Tail(items)))

RenderElements(elems) ==
  IF elems = <<>> THEN <<>>
  ELSE RenderValue(Head(elems))
       \o (IF Tail(elems) = <<>> THEN <<>> ELSE <<Punct(","), Space>> \o RenderElements(Tail(elems)))

\* the text of a JSON document
RenderValue(v) ==
  IF IsNumber(v) THEN <<NumLit(v)>>
  ELSE IF "str" \in DOMAIN v THEN <<StrLit(v.str)>>
  ELSE IF "dict" \in DOMAIN v THEN <<Punct("{")>> \o RenderItems(v.dict) \o <<Punct("}")>>
  ELSE <<Punct("[")>> \o RenderElements(v.list) \o <<Punct("]")>>

DocScores == PyDict(<<Item("A", FromInt(8)), Item("B", FromInt(6))>>)
DocRationales ==
  PyDict(<<Item("A", PyStr(<<"sound design">>)), Item("B", PyStr(<<"thin tests">>))>>)
DocFeedback == PyStr(<<"clear demo">>)

\* documents with the three top-level keys: the criteria A and B; A only; A, B and D;
\* a word as score; a score map that is a number; a rationale map that is a string;
\* an error key beside the three
KeyedDocs ==
  {PyDict(<<Item("scores", DocScores), Item("rationales", DocRationales),
            Item("feedback", DocFeedback)>>),
   PyDict(<<Item("scores", PyDict(<<Item("A", FromInt(8))>>)),
            Item("rationales", PyDict(<<Item("A", PyStr(<<"sound design">>))>>)),
            Item("feedback", DocFeedback)>>),
   PyDict(<<Item("scores", PyDict(<<Item("A", FromInt(8)), Item("B", FromInt(6)),
                                    Item("D", FromInt(7))>>)),
            Item("rationales", DocRationales), Item("feedback", DocFeedback)>>),
   PyDict(<<Item("scores", PyDict(<<Item("A", PyStr(<<"high">>)), Item("B", FromInt(6))>>)),
            Item("rationales", DocRationales), Item("feedback", DocFeedback)>>),
   PyDict(<<Item("scores", FromInt(7)), Item("rationales", DocRationales),
            Item("feedback", DocFeedback)>>),
   PyDict(<<Item("scores", DocScores), Item("rationales", PyStr(<<"sound design">>)),
            Item("feedback", DocFeedback)>>),
   PyDict(<<Item("scores", DocScores), Item("rationales", DocRationales),
            Item("feedback", DocFeedback), Item("error", PyStr(<<"model overloaded">>))>>)}

\* valid JSON without one of the three keys: objects, a list, a string, a number
UnkeyedDocs ==
  {PyDict(<<Item("scores", DocScores), Item("rationales", DocRationales)>>),
   PyDict(<<Item("scores", DocScores), Item("feedback", DocFeedback)>>),
   PyDict(<<Item("rationales", DocRationales), Item("feedback", DocFeedback)>>),
   PyDict(<<>>),
   PyList(<<PyStr(<<"scores">>), PyStr(<<"rationales">>)>>),
   PyStr(<<"scores", " ", "feedback">>),
   FromInt(7)}

\* valid JSON that is no object but holds the three names
NamingDocs ==
  {PyList(<<PyStr(<<"scores">>), PyStr(<<"rationales">>), PyStr(<<"feedback">>)>>),
   PyStr(<<"scores", " ", "rationales", " ", "feedback">>)}

AdapterDocs == KeyedDocs \cup UnkeyedDocs \cup NamingDocs

PlainReply(doc) == RenderValue(doc)
FencedReply(doc) ==
  <<Word("Here is my evaluation:"), Space, Fence("json"), Space>> \o RenderValue(doc)
    \o <<Space, Fence(""), Space, Word("Let me know if you need more")>>
ProseReply(doc) ==
  <<Word("Evaluation:"), Space>> \o RenderValue(doc) \o <<Space, Word("Thank you")>>
CutReply(doc) == SubSeq(RenderValue(doc), 1, Len(RenderValue(doc)) - 1)
NoJsonReply == <<Word("I cannot evaluate this project")>>

ReplyTexts ==
  {<<>>, NoJsonReply}
    \cup {PlainReply(doc) : doc \in AdapterDocs} \cup {FencedReply(doc) : doc \in AdapterDocs}
    \cup {ProseReply(doc) : doc \in AdapterDocs} \cup {CutReply(doc) : doc \in AdapterDocs}

Replies ==
  {[raises |-> <<"Connection error">>], [empty |-> TRUE]} \cup {[content |-> t] : t \in ReplyTexts}

Backends ==
  {[api_key |-> FALSE, reply |-> [empty |-> TRUE]]}
    \cup {[api_key |-> TRUE, reply |-> r] : r \in Replies}

InitAdapter ==
  /\ fn_args \in {[adapter |-> a, rubric |-> r, backend |-> b] :
                    a \in {"gpt", "claude"}, r \in AggRubrics, b \in Backends}
  /\ fn_ret = NotCalled
  /\ hash_order = PhraseList
  /\ SessionInit

CallJudgeAdapter ==
  /\ fn_ret = NotCalled
  /\ fn_ret' = Returned(IF fn_args.adapter = "gpt"
                        THEN get_ai_judgment(fn_args.rubric, fn_args.backend)
                        ELSE get_claude_judgment(fn_args.rubric, fn_args.backend))
  /\ UNCHANGED <<fn_args, process_vars, files, call, session_vars, run_vars>>

NextAdapter == CallJudgeAdapter

SpecAdapter == InitAdapter /\ [][NextAdapter]_vars

(***************************************************************************)
(* Spec: the session of app.py.  Between runs the user adds projects, edits *)
(* the weights, clears the session or starts a judging run; a run walks the *)
(* project list, judges every pending project, ranks and stores the batch.  *)
(***************************************************************************)
MaxProjects == 3
ProjectNames == <<"P1", "P2", "P3", "P4">>

\* the scratch paths of a run: tempfile.mkdtemp(), tempfile.mkdtemp(dir=parent_temp_dir),
\* os.path.join(output_dir, "downloaded_video.mp4") inside it, and the default
\* output_audio_path of extract_audio_from_video, a path relative to the working
\* directory
ParentTempDir == "parent_temp_dir/"
TempProjectDir == "parent_temp_dir/temp_project_dir/"
VideoPath == "parent_temp_dir/temp_project_dir/downloaded_video.mp4"
AudioPath == "temp_audio.mp3"

\* what the steps 1-2 of a project leave on disk
ProjectScratch(project, downloaded, audio_extracted) ==
  {TempProjectDir}
    \cup (IF HasVideoUrl(project) /\ downloaded THEN {VideoPath} ELSE {})
    \cup (IF HasVideoUrl(project) /\ downloaded /\ audio_extracted THEN {AudioPath} ELSE {})

\* shutil.rmtree(parent_temp_dir): the directory and all below it; removed says
\* whether it succeeded (its exception is printed and dropped)
RmtreeReturns == {TRUE, FALSE}
FinalCleanup(disk, removed) ==
  IF ParentTempDir \in disk /\ removed
  THEN disk \ {ParentTempDir, TempProjectDir, VideoPath}
  ELSE disk

\* what scrape_project_page finds on a page: a video and a repository, or neither
ScrapedLinks ==
  {[video_url |-> <<"https://stream.example/pitch.mp4">>,
    repo_link |-> <<"https://github.com/team/project">>],
   [video_url |-> <<"Video URL Not Found">>, repo_link |-> <<"GitHub Link Not Found">>]}

\* the edits of the weight widgets: Technicality to 40 or back to 20, Originality
\* to 0 or back to 20
WeightEdits ==
  {[name |-> "Technicality", weight |-> 40], [name |-> "Technicality", weight |-> 20],
   [name |-> "Originality", weight |-> 0], [name |-> "Originality", weight |-> 20]}

\* what the collaborators return to a run: download_video_from_url a path or None,
\* extract_audio_from_video a path, transcribe_audio and fetch_readme a text
DownloadReturns == {TRUE, FALSE}
AudioReturns == {TRUE}
TranscribeReturns == {<<"we built a bridge">>}
FetchReadmeReturns == {<<"# Bridge", "\n", "install and run">>}

AppRationales(first, second) ==
  [i \in 1..Len(DEFAULT_RUBRIC.criteria) |->
     [k |-> DEFAULT_RUBRIC.criteria[i].name,
      v |-> IF i = 1 THEN first \o <<".", " ">> \o second \o <<".">> ELSE first]]

AppScores(values) ==
  [i \in 1..Len(DEFAULT_RUBRIC.criteria) |->
     [k |-> DEFAULT_RUBRIC.criteria[i].name, v |-> values[i]]]

\* answers of get_ai_judgment: scores 8, 6, 7, 9, 6, and an error record
GptAnswer ==
  [scores |-> AppScores(<<FromInt(8), FromInt(6), FromInt(7), FromInt(9), FromInt(6)>>),
   rationales |-> AppRationales(<<"sound design">>, <<"thin tests">>),
   feedback |-> <<"sound design", "\n", "thin tests">>]

GptError == [error |-> <<"Failed to get AI judgment after multiple attempts due to API error">>]

\* answers of get_claude_judgment: scores 6, 8, 7, 8, 6, the same with a word in
\* place of the first score, and an error record
ClaudeAnswer ==
  [scores |-> AppScores(<<FromInt(6), FromInt(8), FromInt(7), FromInt(8), FromInt(6)>>),
   rationales |-> AppRationales(<<"clear demo">>, <<"thin tests">>),
   feedback |-> <<"clear demo", "\n", "thin tests">>]

ClaudeWordAnswer ==
  [ClaudeAnswer EXCEPT
     !.scores = AppScores(<<PyStr("high"), FromInt(8), FromInt(7), FromInt(8), FromInt(6)>>)]

ClaudeError == [error |-> <<"Invalid JSON received from Claude">>]

\* what the two judges return for one project
JudgeReturns ==
  {[gpt |-> GptAnswer, claude |-> ClaudeAnswer],
   [gpt |-> GptAnswer, claude |-> ClaudeWordAnswer],
   [gpt |-> GptError, claude |-> ClaudeAnswer],
   [gpt |-> GptError, claude |-> ClaudeError]}

Init ==
  /\ SessionInit
  /\ fn_args = PyNone
  /\ fn_ret = NotCalled
  /\ hash_order = PhraseList

\* add_single_project with a page that scrapes
AddProject ==
  /\ pc = "idle"
  /\ Len(projects) < MaxProjects
  /\ \E scraped \in ScrapedLinks :
       projects' = Append(projects,
                          [name |-> ProjectNames[Len(projects) + 1],
                           description |-> <<"a bridge between two chains">>,
                           video_url |-> scraped.video_url,
                           repo_link |-> scraped.repo_link,
                           status |-> <<"Pending">>])
  /\ UNCHANGED <<results, processing, custom_weights, run_vars, fn_vars, process_vars, files, call>>

\* a weight widget changed
SetWeight ==
  /\ pc = "idle"
  /\ \E edit \in WeightEdits :
       /\ custom_weights[edit.name] # edit.weight
       /\ custom_weights' = [custom_weights EXCEPT ![edit.name] = edit.weight]
  /\ UNCHANGED <<projects, results, processing, run_vars, fn_vars, process_vars, files, call>>

\* the start of a run that writes the weights into utils.DEFAULT_RUBRIC itself
StartRunAliasing ==
  /\ pc = "idle"
  /\ projects # <<>>
  /\ ~processing
  /\ WeightsTotal(custom_weights) = 100
  /\ processing' = TRUE
  /\ results' = ListValue(<<>>)
  /\ default_rubric' = FinalCustomRubric(custom_weights)
  /\ final_custom_rubric' = FinalCustomRubric(custom_weights)
  /\ results_list' = <<>>
  /\ loop_index' = 1
  /\ pc' = "loop"
  /\ files' = files \cup {ParentTempDir}
  /\ UNCHANGED <<projects, custom_weights, fn_vars, hash_order, call>>

\* the start of a run with the button enabled whatever the weights
StartRunAnyWeights ==
  /\ pc = "idle"
  /\ projects # <<>>
  /\ ~processing
  /\ processing' = TRUE
  /\ results' = ListValue(<<>>)
  /\ final_custom_rubric' = FinalCustomRubric(custom_weights)
  /\ results_list' = <<>>
  /\ loop_index' = 1
  /\ pc' = "loop"
  /\ files' = files \cup {ParentTempDir}
  /\ UNCHANGED <<projects, custom_weights, fn_vars, process_vars, call>>

\* the start of a run that goes on from the batch of the run before
StartRunKeepingBatch ==
  /\ pc = "idle"
  /\ projects # <<>>
  /\ ~processing
  /\ WeightsTotal(custom_weights) = 100
  /\ processing' = TRUE
  /\ results' = ListValue(<<>>)
  /\ final_custom_rubric' = FinalCustomRubric(custom_weights)
  /\ results_list' = (IF results = PyNone THEN <<>> ELSE results.list)
  /\ loop_index' = 1
  /\ pc' = "loop"
  /\ files' = files \cup {ParentTempDir}
  /\ UNCHANGED <<projects, custom_weights, fn_vars, process_vars, call>>

\* "Judge All Pending Projects" pressed: the script up to the project loop
StartRun ==
  /\ pc = "idle"
  /\ projects # <<>>
  /\ ~processing
  /\ WeightsTotal(custom_weights) = 100
  /\ processing' = TRUE
  /\ results' = ListValue(<<>>)
  /\ final_custom_rubric' = FinalCustomRubric(custom_weights)
  /\ results_list' = <<>>
  /\ loop_index' = 1
  /\ pc' = "loop"
  /\ files' = files \cup {ParentTempDir}
  /\ UNCHANGED <<projects, custom_weights, fn_vars, process_vars, call>>

\* one iteration of the project loop over a project that is not pending
SkipProject ==
  /\ pc = "loop"
  /\ loop_index <= Len(projects)
  /\ projects[loop_index].status # <<"Pending">>
  /\ loop_index' = loop_index + 1
  /\ UNCHANGED <<session_vars, pc, final_custom_rubric, results_list, fn_vars, process_vars, files, call>>

\* the loop iteration without its try/except: an exception ends the script
ProcessProjectAborting ==
  /\ pc = "loop"
  /\ loop_index <= Len(projects)
  /\ projects[loop_index].status = <<"Pending">>
  /\ \E downloaded \in DownloadReturns, audio_extracted \in AudioReturns,
        transcribed \in TranscribeReturns, fetched \in FetchReadmeReturns,
        judged \in JudgeReturns :
       LET project == projects[loop_index]
           transcript == GatherTranscript(project, downloaded, audio_extracted, transcribed)
           readme_content == GatherReadme(project, fetched)
           ai_result == get_combined_judgment(judged.gpt, judged.claude,
                                              final_custom_rubric, hash_order)
           fields == JudgedFields(ai_result, final_custom_rubric)
       IN  IF "raised" \in DOMAIN ai_result
           THEN /\ pc' = "idle"
                /\ UNCHANGED <<projects, results_list, loop_index>>
           ELSE /\ projects' = [projects EXCEPT ![loop_index].status = fields.status]
                /\ results_list' = Append(results_list,
                                          ResultRecord(project, fields, transcript, readme_content))
                /\ loop_index' = loop_index + 1
                /\ pc' = "loop"
  /\ UNCHANGED <<results, processing, custom_weights, final_custom_rubric,
                 fn_vars, process_vars, files, call>>

\* one iteration of the project loop over a pending project
ProcessProject ==
  /\ pc = "loop"
  /\ loop_index <= Len(projects)
  /\ projects[loop_index].status = <<"Pending">>
  /\ \E downloaded \in DownloadReturns, audio_extracted \in AudioReturns,
        transcribed \in TranscribeReturns, fetched \in FetchReadmeReturns,
        judged \in JudgeReturns :
       LET project == projects[loop_index]
           transcript == GatherTranscript(project, downloaded, audio_extracted, transcribed)
           readme_content == GatherReadme(project, fetched)
           ai_result == get_combined_judgment(judged.gpt, judged.claude,
                                              final_custom_rubric, hash_order)
           fields == JudgedFields(ai_result, final_custom_rubric)
       IN  /\ projects' = [projects EXCEPT ![loop_index].status = fields.status]
           /\ results_list' = Append(results_list,
                                     ResultRecord(project, fields, transcript, readme_content))
           /\ files' = files \cup ProjectScratch(project, downloaded, audio_extracted)
  /\ loop_index' = loop_index + 1
  /\ UNCHANGED <<results, processing, custom_weights, pc, final_custom_rubric,
                 fn_vars, process_vars, call>>

\* the end of a run without the reset of the processing flag
FinishRunFlagKept ==
  /\ pc = "loop"
  /\ loop_index > Len(projects)
  /\ results' = ListValue(SortResults(results_list))
  /\ pc' = "idle"
  /\ final_custom_rubric' = PyNone
  /\ results_list' = <<>>
  /\ loop_index' = 0
  /\ \E removed \in RmtreeReturns : files' = FinalCleanup(files, removed)
  /\ UNCHANGED <<projects, processing, custom_weights, fn_vars, process_vars, call>>

\* the script after the project loop: remove the parent directory, rank, store,
\* reset the flag; an exception of the sort ends the script where it is
FinishRun ==
  /\ pc = "loop"
  /\ loop_index > Len(projects)
  /\ IF SortRaises(results_list)
     THEN UNCHANGED <<results, processing>>
     ELSE /\ results' = ListValue(SortResults(results_list))
          /\ processing' = FALSE
  /\ pc' = "idle"
  /\ final_custom_rubric' = PyNone
  /\ results_list' = <<>>
  /\ loop_index' = 0
  /\ \E removed \in RmtreeReturns : files' = FinalCleanup(files, removed)
  /\ UNCHANGED <<projects, custom_weights, fn_vars, process_vars, call>>

\* "Clear All Projects and Results" pressed
ClearAll ==
  /\ pc = "idle"
  /\ projects' = <<>>
  /\ results' = PyNone
  /\ processing' = FALSE
  /\ UNCHANGED <<custom_weights, run_vars, fn_vars, process_vars, files, call>>

Next ==
  \/ AddProject
  \/ SetWeight
  \/ StartRun
  \/ SkipProject
  \/ ProcessProject
  \/ FinishRun
  \/ ClearAll

Spec == Init /\ [][Next]_vars

(***************************************************************************)
(* Exact arithmetic for the statements about the scorer: every drawn score *)
(* is a multiple of 1/8, so 8 * score is an integer.                       *)
(***************************************************************************)
Abs(n) == IF n < 0 THEN -n ELSE n

Eighths(v) == v.sgn * BigToInt(BigShl(v.m, v.e + 3))

\* 8 * sum(score_i * weight_i), a missing or non-numeric score counting as 0
RECURSIVE WeightedEighths(_, _)
WeightedEighths(scores, criteria) ==
  IF criteria = <<>> THEN 0
  ELSE LET score == DictGet(scores, Head(criteria).name, Missing)
       IN  (IF IsNumber(score) THEN Eighths(score) * Head(criteria).weight ELSE 0)
           + WeightedEighths(scores, Tail(criteria))

RECURSIVE SumEighths(_)
SumEighths(xs) == IF xs = <<>> THEN 0 ELSE Eighths(Head(xs)) + SumEighths(Tail(xs))

\* x is the float of a number with two decimal places
IsCentesimal(x) == PyRound(x, 2) = x

ScoreCalled == fn_ret.called

\* C5: with a non-zero total weight the scorer returns a number of two decimal
\* places nearest to sum(score_i * weight_i) / total_weight, a missing or
\* non-numeric score counting as 0, on the rubric's own scale.
C5_WeightedMeanRounded ==
  (ScoreCalled /\ TotalWeight(fn_args.rubric.criteria) # 0) =>
    LET ret == fn_ret.value
        k == RoundDecimal(ret, 2)
        P == WeightedEighths(fn_args.scores, fn_args.rubric.criteria)
        Q == 8 * TotalWeight(fn_args.rubric.criteria)
    IN  /\ IsNumber(ret)
        /\ ret = FDivInt(FromInt(k), 100)
        /\ 2 * Abs(k * Q - 100 * P) <= Q

\* a call with a missing score, a non-numeric score and a weighted numeric score
C5_Witness ==
  /\ ScoreCalled
  /\ TotalWeight(fn_args.rubric.criteria) # 0
  /\ fn_ret.value # FromInt(0)
  /\ \E i, j, l \in 1..Len(fn_args.rubric.criteria) :
       LET c == fn_args.rubric.criteria
       IN  /\ c[i].name \notin DictKeys(fn_args.scores)
           /\ ~IsNumber(DictGet(fn_args.scores, c[j].name, FromInt(0)))
           /\ IsNumber(DictGet(fn_args.scores, c[l].name, Missing))
           /\ c[i].weight > 0 /\ c[j].weight > 0 /\ c[l].weight > 0

\* C6: with total weight 0 the scorer returns the plain mean of the numeric
\* values of the score map, 0 when there is none; {A:5, B:7} gives 6.
C6_ZeroWeightMean ==
  (ScoreCalled /\ TotalWeight(fn_args.rubric.criteria) = 0) =>
    LET nums == NumbersOf(DictValues(fn_args.scores))
    IN  /\ nums = <<>> => fn_ret.value = FromInt(0)
        /\ nums # <<>> =>
             fn_ret.value = FDivInt(FromInt(SumEighths(nums)), 8 * Len(nums))
        /\ nums = <<FromInt(5), FromInt(7)>> => fn_ret.value = FromInt(6)

\* zero weights, scores {A:5, B:"high", C:7}: the mean of 5 and 7
C6_Witness ==
  /\ ScoreCalled
  /\ Len(fn_args.rubric.criteria) = MaxCriteria
  /\ TotalWeight(fn_args.rubric.criteria) = 0
  /\ DictValues(fn_args.scores) = <<FromInt(5), PyStr("high"), FromInt(7)>>
  /\ fn_ret.value = FromInt(6)

\* every criterion of the rubric has a numeric score within the rubric's scale
ScoresInRange(scores, rubric) ==
  \A i \in 1..Len(rubric.criteria) :
    LET score == DictGet(scores, rubric.criteria[i].name, Missing)
    IN  /\ IsNumber(score)
        /\ FCmp(rubric.scale[1], score) <= 0
        /\ FCmp(score, rubric.scale[2]) <= 0

RetInScale ==
  /\ FCmp(fn_args.rubric.scale[1], fn_ret.value) <= 0
  /\ FCmp(fn_ret.value, fn_args.rubric.scale[2]) <= 0

\* C7 as stated: when the weights sum to 100 and every criterion has a numeric score
\* within [scale.min, scale.max], the total lies within [scale.min, scale.max].
C7_Original ==
  (/\ ScoreCalled
   /\ TotalWeight(fn_args.rubric.criteria) = 100
   /\ ScoresInRange(fn_args.scores, fn_args.rubric)) => RetInScale

\* C7: when the weights sum to 100, every criterion has a numeric score within
\* [scale.min, scale.max], and scale.min and scale.max have at most two decimal
\* places, the total lies within [scale.min, scale.max].
C7_InRangeCentesimalScale ==
  (/\ ScoreCalled
   /\ TotalWeight(fn_args.rubric.criteria) = 100
   /\ ScoresInRange(fn_args.scores, fn_args.rubric)
   /\ IsCentesimal(fn_args.rubric.scale[1])
   /\ IsCentesimal(fn_args.rubric.scale[2])) => RetInScale

\* three weighted criteria with different in-range scores on the 1-10 scale
C7_Witness ==
  /\ ScoreCalled
  /\ TotalWeight(fn_args.rubric.criteria) = 100
  /\ Len(fn_args.rubric.criteria) = 3
  /\ \A i \in 1..3 : fn_args.rubric.criteria[i].weight > 0
  /\ fn_args.rubric.scale = <<FromInt(1), FromInt(10)>>
  /\ ScoresInRange(fn_args.scores, fn_args.rubric)
  /\ Cardinality({fn_args.scores[i].v : i \in 1..Len(fn_args.scores)}) > 1
  /\ RetInScale

\* the rubric with its criteria list reordered by p
Reordered(rubric, p) ==
  [rubric EXCEPT !.criteria = [i \in 1..Len(rubric.criteria) |-> rubric.criteria[p[i]]]]

\* C8: the scorer returns the same value under every permutation of the criteria
C8_OrderIndependent ==
  ScoreCalled =>
    \A p \in Permutations(1..Len(fn_args.rubric.criteria)) :
      calculate_total_score(fn_args.scores, Reordered(fn_args.rubric, p)) = fn_ret.value

(***************************************************************************)
(* SpecProject: the body of the judging loop for one Pending project, with *)
(* the collaborators' outcomes drawn: the download and the audio           *)
(* extraction succeed or fail, transcribe_audio and fetch_readme return a  *)
(* genuine text or one of their failure texts, and each judge backend      *)
(* answers with a document over the criteria of DEFAULT_RUBRIC or fails.   *)
(* The return value holds the result appended to results_list and what the *)
(* judges were handed and returned.                                        *)
(***************************************************************************)
TranscribeOutcomes ==
  {<<"we built a bridge">>,
   <<"Error:", " ", "OpenAI API Key not configured", ".">>,
   <<"Error during transcription:", " ", "Connection error">>}

FetchReadmeOutcomes ==
  {<<"# Bridge", "\n", "install and run">>,
   <<"Error:", " ", "Invalid GitHub URL format", ".", " ", "Expected https://github.com/owner/repo">>,
   <<"Error fetching README:", " ", "403 - rate limit exceeded">>,
   <<"Error:", " ", "README file not found in the root directory", ".">>,
   <<"Error processing GitHub URL:", " ", "Connection error">>}

CommitCounts == {PyNone, [count |-> "1"]}

\* the JSON document of a judge record
DocOfRecord(record) ==
  PyDict(<<Item("scores", PyDict(record.scores)),
           Item("rationales",
                PyDict([n \in 1..Len(record.rationales) |->
                          Item(record.rationales[n].k, PyStr(record.rationales[n].v))])),
           Item("feedback", PyStr(record.feedback))>>)

\* an answer that names the first criterion only
FirstCriterionOnly(record) ==
  [record EXCEPT !.scores = SubSeq(record.scores, 1, 1),
                 !.rationales = SubSeq(record.rationales, 1, 1)]

FailingBackend == [api_key |-> TRUE, reply |-> [raises |-> <<"Connection error">>]]

GptBackends ==
  {FailingBackend,
   [api_key |-> TRUE, reply |-> [content |-> PlainReply(DocOfRecord(GptAnswer))]],
   [api_key |-> TRUE,
    reply |-> [content |-> PlainReply(DocOfRecord(FirstCriterionOnly(GptAnswer)))]]}

ClaudeBackends ==
  {FailingBackend,
   [api_key |-> TRUE, reply |-> [content |-> FencedReply(DocOfRecord(ClaudeAnswer))]],
   [api_key |-> TRUE, reply |-> [content |-> FencedReply(DocOfRecord(ClaudeWordAnswer))]],
   [api_key |-> TRUE,
    reply |-> [content |-> ProseReply(DocOfRecord(FirstCriterionOnly(ClaudeAnswer)))]]}

PendingProject(links) ==
  [name |-> "P1", description |-> <<"a bridge between two chains">>,
   video_url |-> links.video_url, repo_link |-> links.repo_link, status |-> <<"Pending">>]

InitProject ==
  /\ SessionInit
  /\ fn_args \in {[project |-> PendingProject(links), downloaded |-> d, audio_extracted |-> a,
                   transcribed |-> t, fetched |-> f, commit_count |-> n,
                   gpt |-> g, claude |-> c, rubric |-> FinalCustomRubric(custom_weights)] :
                    links \in ScrapedLinks, d \in BOOLEAN, a \in BOOLEAN,
                    t \in TranscribeOutcomes, f \in FetchReadmeOutcomes, n \in CommitCounts,
                    g \in GptBackends, c \in ClaudeBackends}
  /\ fn_ret = NotCalled
  /\ hash_order = PhraseList

\* one pass of the loop body, from "Create a unique temp directory" to the append
JudgeOneProject ==
  /\ fn_ret = NotCalled
  /\ LET project == fn_args.project
         rubric == fn_args.rubric
         transcript == GatherTranscript(project, fn_args.downloaded, fn_args.audio_extracted,
                                        fn_args.transcribed)
         readme_content == GatherReadme(project, fn_args.fetched)
         pitch_transcript == WithoutErrorMarker(transcript)
         readme_argument == WithoutErrorMarker(readme_content)
         prompt == JudgePrompt(project.description, pitch_transcript, readme_argument,
                               CommitInfo(project, fn_args.commit_count))
         gpt_result == get_ai_judgment(rubric, fn_args.gpt)
         claude_result == get_claude_judgment(rubric, fn_args.claude)
         ai_result == get_combined_judgment(gpt_result, claude_result, rubric, hash_order)
         fields == JudgedFields(ai_result, rubric)
     IN  fn_ret' = Returned([result |-> ResultRecord(project, fields, transcript, readme_content),
                             pitch_transcript |-> pitch_transcript,
                             readme_content |-> readme_argument,
                             gpt_prompt |-> prompt,
                             claude_prompt |-> prompt,
                             gpt_result |-> gpt_result,
                             claude_result |-> claude_result])
  /\ UNCHANGED <<fn_args, process_vars, files, call, session_vars, run_vars>>

NextProject == JudgeOneProject

SpecProject == InitProject /\ [][NextProject]_vars

(***************************************************************************)
(* SpecJudge: one call of get_combined_judgment, step by step: the call of *)
(* get_ai_judgment, its return, the call of get_claude_judgment, its       *)
(* return, the aggregation.  The calls create(...) are made without a      *)
(* timeout argument and the function does nothing while it waits: a call   *)
(* comes back with a reply, comes back with an exception (the backend's or *)
(* the client library's), or does not come back.                           *)
(***************************************************************************)
HangingBackend == [api_key |-> TRUE, reply |-> [hangs |-> TRUE]]
NoKeyBackend == [api_key |-> FALSE, reply |-> [empty |-> TRUE]]

\* the adapter comes back: without a key it returns before the call
Answers(backend) == ~backend.api_key \/ "hangs" \notin DOMAIN backend.reply

GptJudgeBackends == GptBackends \cup {HangingBackend, NoKeyBackend}
ClaudeJudgeBackends == ClaudeBackends \cup {HangingBackend}

\* what the three functions return on the arguments gpt, claude and rubric; nothing
\* where a backend never answers
GptReturn(args) == IF Answers(args.gpt) THEN get_ai_judgment(args.rubric, args.gpt) ELSE PyNone
ClaudeReturn(args) == IF Answers(args.claude) THEN get_claude_judgment(args.rubric, args.claude) ELSE PyNone
CombinedReturn(args, order) == IF Answers(args.gpt) /\ Answers(args.claude) THEN get_combined_judgment(GptReturn(args), ClaudeReturn(args), args.rubric, order) ELSE PyNone

\* the arguments of one call, and with them the three returns they determine: the
\* steps below hand these over at the place of the code where they come about
InitJudge ==
  /\ SessionInit
  /\ hash_order = PhraseList
  /\ \E g \in GptJudgeBackends, c \in ClaudeJudgeBackends :
       LET args == [gpt |-> g, claude |-> c, rubric |-> FinalCustomRubric(custom_weights)]
       IN  fn_args = [gpt |-> g, claude |-> c, rubric |-> args.rubric,
                      gpt_return |-> GptReturn(args),
                      claude_return |-> ClaudeReturn(args),
                      combined_return |-> CombinedReturn(args, hash_order)]
  /\ fn_ret = NotCalled

\* gpt_result = get_ai_judgment(...): the call is made
CallGptJudge ==
  /\ call = NoCall
  /\ fn_ret = NotCalled
  /\ call' = [stage |-> "gpt_outstanding"]
  /\ UNCHANGED <<fn_vars, process_vars, files, session_vars, run_vars>>

\* get_ai_judgment returns its record
GptJudgeResolves ==
  /\ call.stage = "gpt_outstanding"
  /\ Answers(fn_args.gpt)
  /\ call' = [stage |-> "gpt_resolved",
              gpt_result |-> fn_args.gpt_return]
  /\ UNCHANGED <<fn_vars, process_vars, files, session_vars, run_vars>>

\* claude_result = get_claude_judgment(...): the call is made
CallClaudeJudge ==
  /\ call.stage = "gpt_resolved"
  /\ call' = [call EXCEPT !.stage = "claude_outstanding"]
  /\ UNCHANGED <<fn_vars, process_vars, files, session_vars, run_vars>>

\* get_claude_judgment returns its record
ClaudeJudgeResolves ==
  /\ call.stage = "claude_outstanding"
  /\ Answers(fn_args.claude)
  /\ call' = [stage |-> "both_resolved",
              gpt_result |-> call.gpt_result,
              claude_result |-> fn_args.claude_return]
  /\ UNCHANGED <<fn_vars, process_vars, files, session_vars, run_vars>>

\* the aggregation entered while get_claude_judgment has not returned
CombineJudgmentsEarly ==
  /\ call.stage \in {"claude_outstanding", "both_resolved"}
  /\ fn_ret' = Returned(IF call.stage = "both_resolved" THEN fn_args.combined_return
                        ELSE get_combined_judgment(call.gpt_result, [error |-> <<"outstanding">>],
                                                   fn_args.rubric, hash_order))
  /\ call' = [call EXCEPT !.stage = "returned"]
  /\ UNCHANGED <<fn_args, process_vars, files, session_vars, run_vars>>

\* "Check if either model returned an error" to the return
CombineJudgments ==
  /\ call.stage = "both_resolved"
  /\ fn_ret' = Returned(fn_args.combined_return)
  /\ call' = [call EXCEPT !.stage = "returned"]
  /\ UNCHANGED <<fn_args, process_vars, files, session_vars, run_vars>>

NextJudge ==
  \/ CallGptJudge
  \/ GptJudgeResolves
  \/ CallClaudeJudge
  \/ ClaudeJudgeResolves
  \/ CombineJudgments

\* the interpreter goes on with the function whenever it can
SpecJudge == InitJudge /\ [][NextJudge]_vars /\ WF_vars(NextJudge)

(***************************************************************************)
(* Statements about get_combined_judgment (SpecAgg).                       *)
(***************************************************************************)
GptFailed == "error" \in DOMAIN fn_args.gpt_result
ClaudeFailed == "error" \in DOMAIN fn_args.claude_result
RubricNames(rubric) == {rubric.criteria[i].name : i \in 1..Len(rubric.criteria)}

\* C1: when both judges succeed the combined scores have exactly the rubric's
\* criterion names, and where both judges give a number the combined score is a
\* number of one decimal place nearest to the plain mean of the two;
\* {A:8, B:6} and {A:6, B:8} give {A:7.0, B:7.0}.
C1_CombinedScoreIsMean ==
  (fn_ret.called /\ ~GptFailed /\ ~ClaudeFailed /\ "scores" \in DOMAIN fn_ret.value) =>
    LET gpt == fn_args.gpt_result.scores
        claude == fn_args.claude_result.scores
        combined == fn_ret.value.scores
    IN  /\ DictKeys(combined) = RubricNames(fn_args.rubric)
        /\ \A name \in RubricNames(fn_args.rubric) :
             LET g == DictGet(gpt, name, Missing)
                 c == DictGet(claude, name, Missing)
                 v == DictGet(combined, name, Missing)
                 k == RoundDecimal(v, 1)
             IN  (IsNumber(g) /\ IsNumber(c)) =>
                   /\ IsNumber(v)
                   /\ v = FDivInt(FromInt(k), 10)
                   /\ Abs(16 * k - 10 * (Eighths(g) + Eighths(c))) <= 8
        /\ (/\ gpt = <<[k |-> "A", v |-> FromInt(8)], [k |-> "B", v |-> FromInt(6)]>>
            /\ claude = <<[k |-> "A", v |-> FromInt(6)], [k |-> "B", v |-> FromInt(8)]>>
            /\ Len(fn_args.rubric.criteria) = 2)
           => combined = <<[k |-> "A", v |-> FromInt(7)], [k |-> "B", v |-> FromInt(7)]>>

\* both judges succeed on two criteria; A: 7.5 and 8 combine to 7.8, B: 8 and 6 to 7.0
C1_Witness ==
  /\ fn_ret.called /\ ~GptFailed /\ ~ClaudeFailed
  /\ Len(fn_args.rubric.criteria) = 2
  /\ fn_args.gpt_result.scores =
       <<[k |-> "A", v |-> Dyadic(15, 1)], [k |-> "B", v |-> FromInt(8)]>>
  /\ fn_args.claude_result.scores =
       <<[k |-> "A", v |-> FromInt(8)], [k |-> "B", v |-> FromInt(6)]>>
  /\ "scores" \in DOMAIN fn_ret.value
  /\ fn_ret.value.scores =
       <<[k |-> "A", v |-> FDivInt(FromInt(78), 10)], [k |-> "B", v |-> FromInt(7)]>>

\* C2: when exactly one judge failed the other judge's record is returned as it is
C2_SingleJudgeVerbatim ==
  (fn_ret.called /\ GptFailed # ClaudeFailed) =>
    fn_ret.value = IF GptFailed THEN fn_args.claude_result ELSE fn_args.gpt_result

\* GPT failed, Claude answered with two scores: Claude's record comes back
C2_Witness ==
  /\ fn_ret.called /\ GptFailed /\ ~ClaudeFailed
  /\ Len(fn_args.claude_result.scores) = 2
  /\ "scores" \in DOMAIN fn_ret.value
  /\ fn_ret.value.scores = fn_args.claude_result.scores
  /\ fn_ret.value.feedback = fn_args.claude_result.feedback

\* C3: when exactly one judge failed the returned record carries a key, beyond the
\* judge's own scores, rationales and feedback, that marks its single-judge origin
C3_ProvenanceFlag ==
  (fn_ret.called /\ GptFailed # ClaudeFailed) =>
    \E key \in DOMAIN fn_ret.value : key \notin {"scores", "rationales", "feedback"}

\* C4: when both judges failed the result is an error record without scores whose
\* message contains both judges' messages
C4_BothFailedError ==
  (fn_ret.called /\ GptFailed /\ ClaudeFailed) =>
    /\ DOMAIN fn_ret.value = {"error"}
    /\ Contains(fn_ret.value.error, fn_args.gpt_result.error)
    /\ Contains(fn_ret.value.error, fn_args.claude_result.error)

\* both judges failed, each with its own message
C4_Witness ==
  /\ fn_ret.called /\ GptFailed /\ ClaudeFailed
  /\ fn_args.gpt_result.error = <<"Empty response from AI", ".">>
  /\ fn_args.claude_result.error = <<"Anthropic API Key not configured", ".">>
  /\ fn_ret.value.error =
       <<"Both models failed: GPT: ", "Empty response from AI", ".", ", Claude: ",
         "Anthropic API Key not configured", ".">>


(***************************************************************************)
(* Statements about the ranking step.                                      *)
(***************************************************************************)
\* ranked holds the elements of processed, by total descending, elements of equal
\* total in the order they have in processed
IsStableRanking(ranked, processed) ==
  /\ Len(ranked) = Len(processed)
  /\ \E p \in Permutations(1..Len(processed)) :
       /\ \A k \in 1..Len(ranked) : ranked[k] = processed[p[k]]
       /\ \A k, l \in 1..Len(ranked) :
            k < l => /\ FCmp(ranked[k].Total_Score, ranked[l].Total_Score) >= 0
                     /\ ranked[k].Total_Score = ranked[l].Total_Score => p[k] < p[l]

RankingExample == <<RankResult("A", FromInt(50)), RankResult("B", FromInt(80)),
                    RankResult("C", FromInt(80))>>

\* C9: the step that completes a judging run stores the run's results ordered by
\* total score descending, results of equal total in processing order; and the
\* ranking of [A:50, B:80, C:80] is [B, C, A].
C9_RankedStable ==
  [][(pc = "loop" /\ pc' = "idle" /\ ~processing') =>
       /\ IsStableRanking(results'.list, results_list)
       /\ SortResults(RankingExample) =
            <<RankingExample[2], RankingExample[3], RankingExample[1]>>]_vars

\* a completed run over P1, P2, P3 in which P2 and P3 tie above P1
C9_Witness ==
  /\ pc = "idle"
  /\ ~processing
  /\ results # PyNone
  /\ Len(results.list) = 3
  /\ results.list[1].Project_Name = "P2"
  /\ results.list[2].Project_Name = "P3"
  /\ results.list[3].Project_Name = "P1"
  /\ results.list[1].Total_Score = results.list[2].Total_Score
  /\ FCmp(results.list[2].Total_Score, results.list[3].Total_Score) > 0
  /\ results.list[1] # [results.list[2] EXCEPT !.Project_Name = "P2"]

HasNumericTotal(x) == "Total_Score" \in DOMAIN x /\ IsNumber(x.Total_Score)

AdapterReply == fn_args.backend.reply
AdapterReturn == fn_ret.value
IsErrorRecord(ret) == DOMAIN ret = {"error"} /\ Len(ret.error) > 0
SuccessKeys == {"scores", "rationales", "feedback"}

\* the replies built from a document, and those of them the adapter decodes to it
RepliesOf(doc) == {PlainReply(doc), FencedReply(doc), ProseReply(doc), CutReply(doc)}
DecodedReplies(adapter, doc) ==
  IF adapter = "gpt" THEN {PlainReply(doc)}
  ELSE {PlainReply(doc), FencedReply(doc)}
         \cup (IF "dict" \in DOMAIN doc THEN {ProseReply(doc)} ELSE {})

\* no key, a failed call, an empty response, a response that is no JSON, JSON cut short
IsFailedBackend(backend) ==
  \/ ~backend.api_key
  \/ "raises" \in DOMAIN backend.reply
  \/ "empty" \in DOMAIN backend.reply
  \/ /\ "content" \in DOMAIN backend.reply
     /\ backend.reply.content \in {<<>>, NoJsonReply} \cup {CutReply(doc) : doc \in AdapterDocs}

\* C16: a call of get_ai_judgment or get_claude_judgment returns and never raises, and
\* with a missing API key, a failed backend call, an empty response, a response that
\* is no JSON or JSON cut short it returns a record with the one key error.
C16_AdapterNeverRaises ==
  fn_ret.called =>
    /\ "raised" \notin DOMAIN AdapterReturn
    /\ IsFailedBackend(fn_args.backend) => IsErrorRecord(AdapterReturn)

C16_Witness ==
  /\ fn_ret.called
  /\ fn_args.adapter = "gpt"
  /\ fn_args.backend = [api_key |-> TRUE, reply |-> [raises |-> <<"Connection error">>]]
  /\ AdapterReturn = [error |-> <<"API call failed: ", "Connection error">>]

\* C17: when the backend returns valid JSON without one of the top-level keys scores,
\* rationales, feedback (an object without the key, or a list, string or number), the
\* adapter returns an error record and no success record.
C17_MissingKeyIsError ==
  fn_ret.called /\ "content" \in DOMAIN AdapterReply =>
    \A doc \in UnkeyedDocs \cup NamingDocs :
      AdapterReply.content \in RepliesOf(doc) =>
        /\ IsErrorRecord(AdapterReturn)
        /\ SuccessKeys \cap DOMAIN AdapterReturn = {}

C17_Witness ==
  /\ fn_ret.called
  /\ fn_args.adapter = "claude"
  /\ fn_args.backend.api_key
  /\ AdapterReply =
       [content |-> FencedReply(PyDict(<<Item("scores", DocScores),
                                         Item("rationales", DocRationales)>>))]
  /\ AdapterReturn = [error |-> <<"Invalid JSON structure from ", "Claude", " (missing keys)", ".">>]

\* the documents with the three keys whose scores and rationales are maps and whose
\* score or rationale names are not exactly the criterion names of the rubric
MismatchedDocs(rubric) ==
  {doc \in KeyedDocs :
     LET scores == DictGet(doc.dict, "scores", PyNone)
         rationales == DictGet(doc.dict, "rationales", PyNone)
     IN  /\ "dict" \in DOMAIN scores
         /\ "dict" \in DOMAIN rationales
         /\ \/ DictKeys(scores.dict) # RubricNameSet(rubric)
            \/ DictKeys(rationales.dict) # RubricNameSet(rubric)}

\* the returned record holds the entries of the document, no more and no less
IsRecordOfDoc(ret, doc) ==
  LET scores == DictGet(doc.dict, "scores", PyNone).dict
      rationales == DictGet(doc.dict, "rationales", PyNone).dict
  IN  /\ DOMAIN ret = DictKeys(doc.dict)
      /\ ret.scores = scores
      /\ Len(ret.rationales) = Len(rationales)
      /\ \A n \in 1..Len(rationales) :
           /\ ret.rationales[n].k = rationales[n].k
           /\ ret.rationales[n].v = rationales[n].v.str
      /\ ret.feedback = DictGet(doc.dict, "feedback", PyNone).str

\* C18: when the backend returns JSON with scores, rationales and feedback whose score
\* or rationale names differ from the criterion names of the rubric (names missing or
\* extra), the adapter returns the decoded record, with every entry of the document
\* and no other, and not an error record.
C18_MismatchReturnedUnchanged ==
  fn_ret.called /\ "content" \in DOMAIN AdapterReply /\ fn_args.backend.api_key =>
    \A doc \in MismatchedDocs(fn_args.rubric) :
      AdapterReply.content \in DecodedReplies(fn_args.adapter, doc) =>
        /\ IsRecordOfDoc(AdapterReturn, doc)
        /\ SuccessKeys \subseteq DOMAIN AdapterReturn
        /\ ~IsErrorRecord(AdapterReturn)

C18_Witness ==
  /\ fn_ret.called
  /\ fn_args.adapter = "gpt"
  /\ Len(fn_args.rubric.criteria) = 2
  /\ \E doc \in MismatchedDocs(fn_args.rubric) : AdapterReply = [content |-> PlainReply(doc)]
  /\ AdapterReturn =
       [scores |-> <<Item("A", FromInt(8))>>,
        rationales |-> <<Item("A", <<"sound design">>)>>,
        feedback |-> <<"clear demo">>]

\* C19: every record an adapter returns is a success record (scores, rationales and
\* feedback, no error key) or an error record (an error key, no scores), never both.
C19_SuccessXorError ==
  fn_ret.called =>
    \/ SuccessKeys \subseteq DOMAIN AdapterReturn /\ "error" \notin DOMAIN AdapterReturn
    \/ "error" \in DOMAIN AdapterReturn /\ "scores" \notin DOMAIN AdapterReturn

(***************************************************************************)
(* Statements about the judging run.                                       *)
(***************************************************************************)
StatusNames == {<<"Pending">>, <<"Judged">>, <<"Error">>}

\* C11: every project's status is one of Pending, Judged, Error; a project is
\* created Pending; a status changes only inside a judging run, from Pending to
\* Judged or Error; a project that is not Pending is never processed again.
C11_ThreeStateMachine ==
  [][/\ \A k \in 1..Len(projects') : projects'[k].status \in StatusNames
     /\ \A k \in 1..Len(projects') :
          k > Len(projects) => projects'[k].status = <<"Pending">>
     /\ \A k \in 1..Len(projects) :
          (k <= Len(projects') /\ projects'[k].status # projects[k].status) =>
            /\ pc = "loop" /\ k = loop_index
            /\ projects[k].status = <<"Pending">>
            /\ projects'[k].status \in {<<"Judged">>, <<"Error">>}
     /\ (pc = "loop" /\ Len(results_list') > Len(results_list)) =>
          projects[loop_index].status = <<"Pending">>]_vars


\* the number of Pending projects from position k on
PendingFrom(ps, k) == Cardinality({j \in k..Len(ps) : ps[j].status = <<"Pending">>})

\* C20: a run starts with an empty batch; every iteration over a Pending project
\* appends exactly one result, for that project, with the project's new status
\* (not Pending), whether or not the processing failed, and the loop goes on to
\* the next project; the run ends with no Pending project left and stores as many
\* results as it appended, one for each project Pending when the run started.
C20_FailureNeverAborts ==
  [][/\ (pc = "idle" /\ pc' = "loop") => results_list' = <<>> /\ loop_index' = 1
     /\ (pc = "loop" /\ pc' = "loop") =>
          /\ loop_index' = loop_index + 1
          /\ Len(results_list') + PendingFrom(projects', loop_index')
               = Len(results_list) + PendingFrom(projects, loop_index)
          /\ projects[loop_index].status = <<"Pending">> =>
               /\ Len(results_list') = Len(results_list) + 1
               /\ SubSeq(results_list', 1, Len(results_list)) = results_list
               /\ results_list'[Len(results_list')].Project_Name = projects[loop_index].name
               /\ results_list'[Len(results_list')].Status = projects'[loop_index].status
               /\ projects'[loop_index].status # <<"Pending">>
     /\ (pc = "loop" /\ pc' = "idle") =>
          /\ PendingFrom(projects, 1) = 0
          /\ Len(results'.list) = Len(results_list)]_vars

\* a completed run over three projects: the first raised, the second had both judges
\* fail, the third was judged
C20_Witness ==
  /\ pc = "idle"
  /\ ~processing
  /\ results # PyNone
  /\ Len(results.list) = 3
  /\ \E a, b, c \in 1..3 :
       /\ results.list[a].Project_Name = "P1"
       /\ StartsWith(results.list[a].Status, "Error: ")
       /\ results.list[b].Project_Name = "P2"
       /\ results.list[b].Status = <<"Error">>
       /\ results.list[c].Project_Name = "P3"
       /\ results.list[c].Status = <<"Judged">>

(***************************************************************************)
(* Statements about the pass of one project through the loop body, under   *)
(* SpecProject.                                                            *)
(***************************************************************************)
Pass == fn_ret.value
IsErrorStatus(status) == status = <<"Error">> \/ StartsWith(status, "Error: ")

\* C12: a project that ends in the Error state (both judges failed, or an exception
\* was raised) has a result with total score 0, the score 0 for every criterion of
\* the rubric, for every criterion a rationale "Judging failed: " followed by the
\* failure, and a feedback that contains that failure message; when both judges
\* failed the message holds the error of each.
C12_ErrorResultSynthesized ==
  fn_ret.called /\ IsErrorStatus(Pass.result.Status) =>
    LET criteria == fn_args.rubric.criteria
        message == Tail(Pass.result.Rationales[1].v)
    IN  /\ Pass.result.Total_Score = FromInt(0)
        /\ Len(Pass.result.scores) = Len(criteria)
        /\ Len(Pass.result.Rationales) = Len(criteria)
        /\ \A n \in 1..Len(criteria) :
             /\ Pass.result.scores[n] = [k |-> criteria[n].name, v |-> FromInt(0)]
             /\ Pass.result.Rationales[n] =
                  [k |-> criteria[n].name, v |-> <<"Judging failed: ">> \o message]
        /\ message # <<>>
        /\ Contains(Pass.result.feedback, message)
        /\ Pass.result.Status = <<"Error">> =>
             /\ Contains(message, Pass.gpt_result.error)
             /\ Contains(message, Pass.claude_result.error)
        /\ Pass.result.Status # <<"Error">> => Pass.result.Status = <<"Error: ">> \o message

C12_Witness ==
  /\ fn_ret.called
  /\ fn_args.gpt = FailingBackend
  /\ fn_args.claude = FailingBackend
  /\ Pass.result.Status = <<"Error">>
  /\ Pass.result.Total_Score = FromInt(0)
  /\ Pass.result.feedback =
       <<"AI Judging Error: ", "Both models failed: GPT: ", "API call failed: ",
         "Connection error", ", Claude: ", "API call failed: ", "Connection error">>

\* C13: the result of every pass, Judged or Error, also of a project without video
\* and without repository link, has a scores map and a rationales map that both hold
\* every criterion name of the run's rubric.
C13_EveryCriterionPresent ==
  fn_ret.called =>
    /\ RubricNameSet(fn_args.rubric) \subseteq DictKeys(Pass.result.scores)
    /\ RubricNameSet(fn_args.rubric) \subseteq DictKeys(Pass.result.Rationales)

PromptSlot(label, text) == <<"\n", label>> \o text

\* C14: a transcript or README that begins with "Error:" is replaced by None before
\* the judges are called: the argument is None, the prompt of each judge shows
\* "Not available" in its place and does not hold the text.
C14_ErrorMarkerBecomesNone ==
  fn_ret.called =>
    /\ StartsWith(Pass.result.Transcript, "Error:") =>
         /\ Pass.pitch_transcript = PyNone
         /\ \A prompt \in {Pass.gpt_prompt, Pass.claude_prompt} :
              /\ Contains(prompt, PromptSlot("2.  **Pitch Transcript:** ", <<"Not available", "\n">>))
              /\ ~Contains(prompt, Pass.result.Transcript)
    /\ StartsWith(Pass.result.README, "Error:") =>
         /\ Pass.readme_content = PyNone
         /\ \A prompt \in {Pass.gpt_prompt, Pass.claude_prompt} :
              /\ Contains(prompt, PromptSlot("3.  **README Content:** ", <<"Not available">>))
              /\ ~Contains(prompt, Pass.result.README)

C14_Witness ==
  /\ fn_ret.called
  /\ Pass.result.Transcript = <<"Error:", " ", "OpenAI API Key not configured", ".">>
  /\ Pass.result.README = <<"Error:", " ", "README file not found in the root directory", ".">>
  /\ Pass.pitch_transcript = PyNone
  /\ Pass.readme_content = PyNone
  /\ Pass.gpt_prompt =
       <<"**Project Information:**", "\n", "1.  **Project Description:** ",
         "a bridge between two chains", "\n", "2.  **Pitch Transcript:** ", "Not available",
         "\n", "3.  **README Content:** ", "Not available">>

\* the transcript and the README are available when every step towards them succeeded
TranscriptAvailable ==
  /\ HasVideoUrl(fn_args.project)
  /\ fn_args.downloaded
  /\ fn_args.audio_extracted
  /\ fn_args.transcribed \in TranscribeReturns

ReadmeAvailable == HasRepoLink(fn_args.project) /\ fn_args.fetched \in FetchReadmeReturns

\* C15: in every pass the transcript and the README handed to the judges are the
\* genuine text when it is available and None when it is not (no URL, download
\* failed, audio extraction failed, transcriber failed, README fetch failed), and the
\* prompts then show "Not available" and no failure message or placeholder.
C15_GenuineOrNone ==
  fn_ret.called =>
    /\ Pass.pitch_transcript =
         (IF TranscriptAvailable THEN PyText(fn_args.transcribed) ELSE PyNone)
    /\ Pass.readme_content = (IF ReadmeAvailable THEN PyText(fn_args.fetched) ELSE PyNone)
    /\ \A prompt \in {Pass.gpt_prompt, Pass.claude_prompt} :
         /\ ~TranscriptAvailable =>
              Contains(prompt, PromptSlot("2.  **Pitch Transcript:** ", <<"Not available", "\n">>))
         /\ ~ReadmeAvailable =>
              Contains(prompt, PromptSlot("3.  **README Content:** ", <<"Not available">>))

(***************************************************************************)
(* Further statements about get_combined_judgment, under SpecAgg.          *)
(***************************************************************************)
BothJudgesSucceeded ==
  "error" \notin DOMAIN fn_args.gpt_result /\ "error" \notin DOMAIN fn_args.claude_result

\* C23: when both judges succeeded, the aggregated judgment that is returned holds,
\* beside the fused scores, rationales and feedback, the record of each judge
\* unchanged under the judge's name.
C23_SourceRecordsKept ==
  fn_ret.called /\ BothJudgesSucceeded /\ "raised" \notin DOMAIN fn_ret.value =>
    /\ DOMAIN fn_ret.value = {"scores", "rationales", "feedback", "individual_judgments"}
    /\ DOMAIN fn_ret.value.individual_judgments = {"gpt", "claude"}
    /\ fn_ret.value.individual_judgments.gpt = fn_args.gpt_result
    /\ fn_ret.value.individual_judgments.claude = fn_args.claude_result

C23_Witness ==
  /\ fn_ret.called
  /\ BothJudgesSucceeded
  /\ "raised" \notin DOMAIN fn_ret.value
  /\ fn_args.gpt_result # fn_args.claude_result
  /\ fn_args.gpt_result.scores = <<[k |-> "A", v |-> FromInt(8)], [k |-> "B", v |-> FromInt(6)]>>
  /\ fn_ret.value.individual_judgments.gpt.scores = fn_args.gpt_result.scores
  /\ fn_ret.value.individual_judgments.claude.scores = <<[k |-> "A", v |-> FromInt(6)]>>

\* C25: two calls of get_combined_judgment with the same two judge records and the
\* same rubric return identical scores, rationales and feedback, whatever process
\* each call runs in (a process iterates a set of str in the order of its hashes).
C25_AggregationDeterministic ==
  fn_ret.called /\ "raised" \notin DOMAIN fn_ret.value =>
    \A other_order \in HashOrders :
      get_combined_judgment(fn_args.gpt_result, fn_args.claude_result, fn_args.rubric,
                            other_order) = fn_ret.value

\* C27: get_combined_judgment never raises: for every pair of records the adapters
\* can return it returns an aggregated judgment or an error record.
C27_AggregationNeverRaises ==
  fn_ret.called =>
    /\ "raised" \notin DOMAIN fn_ret.value
    /\ \/ "error" \in DOMAIN fn_ret.value
       \/ {"scores", "rationales", "feedback"} \subseteq DOMAIN fn_ret.value

(***************************************************************************)
(* Statements about the judge calls of get_combined_judgment, under        *)
(* SpecJudge.                                                              *)
(***************************************************************************)
JudgeCallOutstanding == call.stage \in {"gpt_outstanding", "claude_outstanding"}
IsJudgeRecord(record) == "error" \in DOMAIN record \/ "scores" \in DOMAIN record

\* C21: every judge call is bounded: a call that is outstanding ends, with the
\* judge's record, also when the backend never answers.  The code passes no timeout
\* to create(...) and has no timer of its own: whether an unanswered call ends is
\* decided by the client library, whose code is not part of the repository.  Where
\* the library waits for ever (HangingBackend) the statement fails; where it raises
\* (FailingBackend) the call ends with the judge's error record.
C21_JudgeCallsEnd == JudgeCallOutstanding ~> ~JudgeCallOutstanding

\* what the code itself settles: a call that create(...) comes back from, with a
\* reply or an exception, ends, and so does the whole function
C21_AnsweredCallsEnd ==
  (Answers(fn_args.gpt) /\ Answers(fn_args.claude)) ~> (fn_ret.called /\ IsJudgeRecord(call.gpt_result) /\ IsJudgeRecord(call.claude_result))

\* C26: the aggregation starts only after both judge calls have returned a record
\* (success or error) and works on these two records; the Claude call is made after
\* the GPT call has returned; and no call changes the other call's record, the
\* arguments or the rubric.
C26_AggregationAfterBothCalls ==
  [][/\ fn_ret' # fn_ret =>
          /\ call.stage = "both_resolved"
          /\ IsJudgeRecord(call.gpt_result)
          /\ IsJudgeRecord(call.claude_result)
          /\ fn_ret' = Returned(get_combined_judgment(call.gpt_result, call.claude_result,
                                                      fn_args.rubric, hash_order))
     /\ call'.stage = "claude_outstanding" /\ call.stage # "claude_outstanding" =>
          /\ call.stage = "gpt_resolved"
          /\ IsJudgeRecord(call.gpt_result)
          /\ call'.gpt_result = call.gpt_result
     /\ call'.stage = "both_resolved" /\ call.stage # "both_resolved" =>
          /\ call.stage = "claude_outstanding"
          /\ call'.gpt_result = call.gpt_result
          /\ call'.claude_result = get_claude_judgment(fn_args.rubric, fn_args.claude)
     /\ call'.stage = "gpt_resolved" /\ call.stage # "gpt_resolved" =>
          /\ call.stage = "gpt_outstanding"
          /\ call'.gpt_result = get_ai_judgment(fn_args.rubric, fn_args.gpt)
     /\ fn_args' = fn_args
     /\ default_rubric' = default_rubric
    ]_vars

C26_Witness ==
  /\ call.stage = "returned"
  /\ fn_ret.called
  /\ "error" \notin DOMAIN call.gpt_result
  /\ "error" \notin DOMAIN call.claude_result
  /\ "raised" \notin DOMAIN fn_ret.value
  /\ fn_ret.value.individual_judgments = [gpt |-> call.gpt_result, claude |-> call.claude_result]

(***************************************************************************)
(* Statements about the scratch files, the rubric, the processing flag and *)
(* the stored batch of a judging run, under Spec.                          *)
(***************************************************************************)
\* C22: once a judging run has ended, no scratch file or directory that the run
\* created remains on disk, on every path through the run.
C22_NoScratchRemains == pc = "idle" => files = {}

\* C24: the rubric of a run is built at the start of the run from DEFAULT_RUBRIC and
\* the weights of the session, no step of the run changes it, every Judged result of
\* the run is scored against it, and utils.DEFAULT_RUBRIC itself is never changed.
C24_RubricFixedForRun ==
  [][/\ default_rubric = DEFAULT_RUBRIC
     /\ default_rubric' = DEFAULT_RUBRIC
     /\ pc = "idle" /\ pc' = "loop" =>
          /\ final_custom_rubric'.scale = DEFAULT_RUBRIC.scale
          /\ Len(final_custom_rubric'.criteria) = Len(DEFAULT_RUBRIC.criteria)
          /\ \A n \in 1..Len(DEFAULT_RUBRIC.criteria) :
               /\ final_custom_rubric'.criteria[n].name = DEFAULT_RUBRIC.criteria[n].name
               /\ final_custom_rubric'.criteria[n].weight =
                    custom_weights[DEFAULT_RUBRIC.criteria[n].name]
     /\ pc = "loop" /\ pc' = "loop" =>
          /\ final_custom_rubric' = final_custom_rubric
          /\ Len(results_list') > Len(results_list) =>
               LET result == results_list'[Len(results_list')]
               IN  result.Status = <<"Judged">> =>
                     result.Total_Score =
                       calculate_total_score(result.scores, final_custom_rubric)
    ]_vars

C24_Witness ==
  /\ pc = "loop"
  /\ loop_index = 3
  /\ Len(results_list) = 2
  /\ results_list[1].Status = <<"Judged">>
  /\ final_custom_rubric.criteria[1] = [name |-> "Technicality", weight |-> 40]
  /\ final_custom_rubric.criteria[2] = [name |-> "Originality", weight |-> 0]
  /\ default_rubric.criteria[1] = [name |-> "Technicality", weight |-> 20]

RECURSIVE CountOf(_, _)
CountOf(list, x) ==
  IF list = <<>> THEN 0
  ELSE (IF Head(list) = x THEN 1 ELSE 0) + CountOf(Tail(list), x)

SameEntries(a, b) ==
  /\ Len(a) = Len(b)
  /\ \A n \in 1..Len(a) : CountOf(a, a[n]) = CountOf(b, a[n])

\* C29: a run replaces the stored batch by the results of the projects that were
\* Pending when it started: the start empties the batch, every step over a Pending
\* project adds the result of that project and no other step adds one, and the end
\* stores exactly the results gathered, so nothing of an earlier run is kept and a
\* run without a Pending project leaves the empty batch.
C29_BatchReplacedByRun ==
  [][/\ pc = "idle" /\ pc' = "loop" =>
          /\ results' = ListValue(<<>>)
          /\ results_list' = <<>>
     /\ pc = "loop" /\ pc' = "loop" =>
          /\ results' = results
          /\ IF projects[loop_index].status = <<"Pending">>
             THEN /\ Len(results_list') = Len(results_list) + 1
                  /\ SubSeq(results_list', 1, Len(results_list)) = results_list
                  /\ results_list'[Len(results_list')].Project_Name = projects[loop_index].name
                  /\ \A n \in 1..Len(results_list) :
                       results_list[n].Project_Name # projects[loop_index].name
             ELSE results_list' = results_list
     /\ pc = "loop" /\ pc' = "idle" =>
          /\ PendingFrom(projects, 1) = 0
          /\ SameEntries(results'.list, results_list)
    ]_vars

C29_Witness ==
  /\ pc = "idle"
  /\ ~processing
  /\ results = ListValue(<<>>)
  /\ Len(projects) = 2
  /\ \A n \in 1..Len(projects) : projects[n].status # <<"Pending">>

\* C30: a run is started only while the weights of the session sum to 100: the rubric
\* of every run, the one passed to the judges and to calculate_total_score, has
\* total weight 100 with every weight an integer from 0 to 100.
C30_RunWeightsSumTo100 ==
  pc = "loop" =>
    /\ TotalWeight(final_custom_rubric.criteria) = 100
    /\ \A n \in 1..Len(final_custom_rubric.criteria) :
         final_custom_rubric.criteria[n].weight \in 0..100
    /\ \A name \in DOMAIN custom_weights :
         WeightOf(final_custom_rubric, name) = custom_weights[name]

C30_Witness ==
  /\ pc = "loop"
  /\ loop_index = 2
  /\ custom_weights["Technicality"] = 40
  /\ custom_weights["Originality"] = 0
  /\ final_custom_rubric.criteria[1].weight = 40
  /\ results_list[1].Status = <<"Judged">>

=============================================================================
